---- MODULE Spec2Model ----
(***************************************************************************)
(* A model of the extraction core of snap_clone:                           *)
(*   - the tab content loader of client/src/Tabs.jsx (request identifiers, *)
(*     per-tab data mappers, the tile filter, the tagged normalisation),   *)
(*   - the SnapchatScraper class (cache, selector cascade, tile parsing),  *)
(*   - getVideoUrl of ContentModal (the eight extraction methods).         *)
(* Each part has its own specification over the shared variable list; the  *)
(* variables of the other parts stay at their initial values.              *)
(***************************************************************************)
EXTENDS Integers, Sequences, FiniteSets, TLC

VARIABLES
  \* Tabs.jsx component state
  requestIdRef, items, itemsReq, dropped, loading, pending, activeTab, availableTabs, mounted, loaded, failed, itemsTab,
  \* one normalisation pass (pure function of tab and document)
  nPc, nSide, nTab, nElems, nOut,
  \* SnapchatScraper: node-cache, clock, calls of fetchProfile / fetchTabContent
  cache, now, calls, fetches, lookups, lastHit, rejected,
  \* SnapchatScraper: findWithFallback / parseProfile
  cPc, cDoc, cBody, cField, cAttr, cResult, cEvaluated, cRaised, cRecord,
  \* ContentModal getVideoUrl
  rPc, rUrl, rDoc, rResult, rRan, rThrew,
  \* Tabs.jsx background validation of the tabs
  vPc, vRealTabs, vIndex, vWithContent, parsedStatuses, vFailed, vSincePause,
  \* Spotlight.jsx and ContentModal.jsx: the modal and its video state
  showModal, activeContent, videoLoading, videoError, showVideo, videoUrl, resolving, opened, settled,
  \* App.jsx: the subscriber count of the profile header
  fPc, fField, fOut

tabVars == <<requestIdRef, items, itemsReq, dropped, loading, pending, activeTab, availableTabs, mounted, loaded, failed, itemsTab>>
normVars == <<nPc, nSide, nTab, nElems, nOut>>
cacheVars == <<cache, now, calls, fetches, lookups, lastHit, rejected>>
cascVars == <<cPc, cDoc, cBody, cField, cAttr, cResult, cEvaluated, cRaised, cRecord>>
resVars == <<rPc, rUrl, rDoc, rResult, rRan, rThrew>>
valVars == <<vPc, vRealTabs, vIndex, vWithContent, parsedStatuses, vFailed, vSincePause>>
modalVars == <<showModal, activeContent, videoLoading, videoError, showVideo, videoUrl, resolving, opened, settled>>
fmtVars == <<fPc, fField, fOut>>
vars == <<tabVars, normVars, cacheVars, cascVars, resVars, valVars, modalVars, fmtVars>>

(***************************************************************************)
(* JavaScript values.  A string is a sequence of one-character strings.    *)
(***************************************************************************)
Undefined == [t |-> "undefined", s |-> <<>>]
Null == [t |-> "null", s |-> <<>>]
Str(s) == [t |-> "str", s |-> s]

\* ToBoolean of undefined, null and strings
Truthy(v) == v.t = "str" /\ v.s # <<>>

\* a || b
Or(a, b) == IF Truthy(a) THEN a ELSE b

\* String(v), as a template literal `${v}` converts
TemplateString(v) ==
  CASE v.t = "undefined" -> <<"u", "n", "d", "e", "f", "i", "n", "e", "d">>
    [] v.t = "null" -> <<"n", "u", "l", "l">>
    [] OTHER -> v.s

\* s.includes(sub)
Includes(s, sub) ==
  \E i \in 0..(Len(s) - Len(sub)) : SubSeq(s, i + 1, i + Len(sub)) = sub

\* s.toLowerCase(), over the letters the model's documents use
LowerChar(c) ==
  CASE c = "S" -> "s" [] c = "R" -> "r" [] c = "K" -> "k" [] c = "L" -> "l"
    [] c = "T" -> "t" [] OTHER -> c

Lower(s) == [i \in 1..Len(s) |-> LowerChar(s[i])]

IsDigit(c) == c \in {"0", "1", "2", "3", "4", "5", "6", "7", "8", "9"}

IsSpace(c) == c = " "

\* s.trim()
RECURSIVE TrimLeft(_)
TrimLeft(s) == IF s # <<>> /\ IsSpace(Head(s)) THEN TrimLeft(Tail(s)) ELSE s

RECURSIVE TrimRight(_)
TrimRight(s) ==
  IF s # <<>> /\ IsSpace(s[Len(s)]) THEN TrimRight(SubSeq(s, 1, Len(s) - 1)) ELSE s

Trim(s) == TrimRight(TrimLeft(s))

\* the end of the match of /\d+[kK]?/ that starts at position i of s (s[i] is a digit)
RECURSIVE DigitsEnd(_, _)
DigitsEnd(s, i) == IF i < Len(s) /\ IsDigit(s[i + 1]) THEN DigitsEnd(s, i + 1) ELSE i

CounterEnd(s, i) ==
  LET e == DigitsEnd(s, i)
  IN IF e < Len(s) /\ s[e + 1] \in {"k", "K"} THEN e + 1 ELSE e

\* the end of the run of \s* that follows position e
RECURSIVE SpacesEnd(_, _)
SpacesEnd(s, e) == IF e < Len(s) /\ IsSpace(s[e + 1]) THEN SpacesEnd(s, e + 1) ELSE e

\* s.match(/\d+[kK]?/g) || [], from position i on
RECURSIVE MatchCounters(_, _)
MatchCounters(s, i) ==
  IF i > Len(s) THEN <<>>
  ELSE IF IsDigit(s[i])
       THEN <<SubSeq(s, i, CounterEnd(s, i))>> \o MatchCounters(s, CounterEnd(s, i) + 1)
       ELSE MatchCounters(s, i + 1)

\* s.replace(/\d+[kK]?\s*/g, ''), from position i on
RECURSIVE StripCounters(_, _)
StripCounters(s, i) ==
  IF i > Len(s) THEN <<>>
  ELSE IF IsDigit(s[i])
       THEN StripCounters(s, SpacesEnd(s, CounterEnd(s, i)) + 1)
       ELSE <<s[i]>> \o StripCounters(s, i + 1)

\* array[i] of a JavaScript array: undefined past the end
At(arr, i) == IF i <= Len(arr) THEN Str(arr[i]) ELSE Undefined

(***************************************************************************)
(* Tabs.jsx: documents, data mappers and the item filter.                  *)
(*                                                                         *)
(* A matched element is a record of what the mappers read from it:         *)
(*   tag       element.tagName                                             *)
(*   text      element.textContent (a SCRIPT's text is its json payload)   *)
(*   hrefUser  element.href?.match(/@([^/]+)/)?.[1]                        *)
(*   addUser   element.href.match(/\/add\/([^?]+)/)?.[1]                   *)
(*   label     element.getAttribute('aria-label')                          *)
(*   inner     element.querySelector('p, span, div')?.textContent?.trim()  *)
(*   img       the src chain of the element's image, undefined without one *)
(*   nearTitle the first non-empty heading text of the three containers    *)
(*             around a story image                                        *)
(*   pText     the first <p> text with a '#' or more than 20 characters in *)
(*             the three containers around a tagged link, else null        *)
(*   h5, p     the trimmed text of the h5 / p inside a related link        *)
(*   json      what JSON.parse(element.textContent) gives                  *)
(***************************************************************************)
\* the subject whose tabs are shown (the username prop)
username == <<"a">>

NoJson ==
  [kind |-> "none", type |-> Undefined, keywordsTagged |-> FALSE, creatorAlt |-> Undefined,
   creatorName |-> Undefined, name |-> Undefined, description |-> Undefined,
   thumbnailUrl |-> Undefined, views |-> Undefined, elems |-> <<>>]

\* a decoded object; keywordsTagged: data.keywords includes '#' + the subject's name
JsonObject(type, tagged, alt, name) ==
  [NoJson EXCEPT !.kind = "object", !.type = type, !.keywordsTagged = tagged,
                 !.creatorAlt = alt, !.name = name]

JsonArray(elems) == [NoJson EXCEPT !.kind = "array", !.elems = elems]

MalformedJson == [NoJson EXCEPT !.kind = "malformed"]

VideoObject == Str(<<"V">>)

Element ==
  [tag |-> "DIV", text |-> <<>>, hrefUser |-> Undefined, addUser |-> Undefined,
   label |-> Null, inner |-> Undefined, img |-> Undefined, nearTitle |-> <<>>,
   pText |-> Null, h5 |-> Undefined, p |-> Undefined, json |-> NoJson]

\* what a data mapper returns for an element it skips
NullItem == [isNull |-> TRUE]

Tile ==
  [isNull |-> FALSE, thumbnail |-> Undefined, user |-> Undefined, description |-> Undefined,
   views |-> Undefined, comments |-> Undefined, shares |-> Undefined,
   isProfile |-> FALSE, isStory |-> FALSE, isVideoArray |-> FALSE, videoData |-> <<>>]

\* the placeholder thumbnail of a story or profile without an image
AvatarUrl == Str(<<"u", "i">>)

StoryTitle(el) ==
  CASE el.tag = "A" -> Trim(el.text)
    [] el.tag = "IMG" -> el.nearTitle
    [] el.tag = "H5" -> Trim(el.text)
    [] OTHER -> <<>>

StoriesMapper(el) ==
  LET storyTitle == StoryTitle(el)
      thumbnailUrl == IF el.tag \in {"A", "IMG"} THEN el.img ELSE Null
  IN IF storyTitle = <<>> \/ Len(storyTitle) < 3 THEN NullItem
     ELSE IF Includes(Lower(storyTitle), <<"r", "e", "c", "e", "n", "t">>)
             \/ Includes(Lower(storyTitle), <<"s", "o", "r", "t">>) THEN NullItem
     ELSE [Tile EXCEPT !.thumbnail = IF Truthy(thumbnailUrl) THEN thumbnailUrl ELSE AvatarUrl,
                       !.user = Str(username),
                       !.description = Str(storyTitle),
                       !.isStory = TRUE]

\* any decoded object taken for a video, whatever its @type
IsAnyObject(data) == data.kind = "object"

\* data['@type'] === 'VideoObject'
IsVideoObject(data) == data.kind = "object" /\ data.type = VideoObject

\* an exception that leaves a data mapper
Thrown == [isNull |-> TRUE, thrown |-> TRUE]

\* the try block without its catch: the error of JSON.parse leaves the mapper
ParseErrorEscapes == Thrown

\* catch { return null } around JSON.parse and the reads of the payload
ParseErrorCaught == NullItem

\* the tile of one decoded VideoObject
VideoTile(data) ==
  [Tile EXCEPT !.thumbnail = data.thumbnailUrl,
               !.user = Or(Or(data.creatorAlt, data.creatorName), Str(username)),
               !.description = Or(data.name, data.description),
               !.views = data.views,
               !.comments = Null,
               !.shares = Null]

SpotlightMapper(el) ==
  IF el.tag = "SCRIPT"
  THEN CASE el.json.kind = "malformed" -> ParseErrorCaught
         [] IsVideoObject(el.json) -> VideoTile(el.json)
         [] el.json.kind = "array" ->
              [Tile EXCEPT !.isVideoArray = TRUE, !.videoData = el.json.elems]
         [] OTHER -> NullItem
  ELSE LET linkText == Trim(el.text)
           numbers == MatchCounters(linkText, 1)
       IN [Tile EXCEPT !.thumbnail = el.img,
                       !.user = Or(el.hrefUser, Str(username)),
                       !.description =
                          Or(Or(Str(Trim(StripCounters(linkText, 1))), el.label), el.inner),
                       !.views = At(numbers, 1),
                       !.comments = At(numbers, 2),
                       !.shares = At(numbers, 3)]

LensesMapper(el) ==
  [Tile EXCEPT !.thumbnail = el.img,
               !.user = Str(username),
               !.description =
                  Or(Or(Or(Or(el.p, el.inner), el.label), Str(Trim(el.text))),
                     Str(<<"L", "e", "n", "s">>))]

TaggedMapper(el) ==
  IF el.tag = "SCRIPT"
  THEN CASE el.json.kind = "malformed" -> ParseErrorCaught
         [] IsVideoObject(el.json) /\ el.json.keywordsTagged ->
              [Tile EXCEPT !.thumbnail = el.json.thumbnailUrl,
                           !.user = el.json.creatorAlt,
                           !.description = Or(el.json.name, el.json.description),
                           !.views = Null, !.comments = Null, !.shares = Null]
         [] OTHER -> NullItem
  ELSE LET numbers == MatchCounters(Trim(el.text), 1)
       IN [Tile EXCEPT !.thumbnail = el.img,
                       !.user = el.hrefUser,
                       !.description = el.pText,
                       !.views = At(numbers, 1),
                       !.comments = At(numbers, 2),
                       !.shares = At(numbers, 3)]

RelatedMapper(el) ==
  IF el.addUser = Undefined THEN NullItem
  ELSE IF el.h5 = Undefined THEN NullItem
  ELSE [Tile EXCEPT !.thumbnail = IF Truthy(el.img) THEN el.img ELSE AvatarUrl,
                    !.user = el.h5,
                    !.description = el.p,
                    !.isProfile = TRUE]

TabNames == {"stories", "spotlight", "lenses", "tagged", "related"}

dataMapper(tab, el) ==
  CASE tab = "stories" -> StoriesMapper(el)
    [] tab = "spotlight" -> SpotlightMapper(el)
    [] tab = "lenses" -> LensesMapper(el)
    [] tab = "tagged" -> TaggedMapper(el)
    [] tab = "related" -> RelatedMapper(el)

\* the predicate of elements.map(dataMapper).filter(...)
KeepItem(item) ==
  IF item.isNull THEN FALSE
  ELSE IF item.isProfile THEN Truthy(item.user)
  ELSE IF item.isStory THEN Truthy(item.user) /\ Truthy(item.description)
  ELSE Truthy(item.user) \/ Truthy(item.description)

IsArrayMarker(item) == item.isVideoArray

\* the tiles of the VideoObjects of the array markers that are left in data
RECURSIVE ProcessedVideos(_)
ProcessedVideos(markers) ==
  IF markers = <<>> THEN <<>>
  ELSE LET videos == SelectSeq(Head(markers).videoData, IsVideoObject)
       IN [i \in 1..Len(videos) |-> VideoTile(videos[i])] \o ProcessedVideos(Tail(markers))

ExpandVideoArrays(data) ==
  LET videoArrays == SelectSeq(data, IsArrayMarker)
      NotMarker(item) == ~item.isVideoArray
  IN IF Len(videoArrays) > 0
     THEN SelectSeq(data, NotMarker) \o ProcessedVideos(videoArrays)
     ELSE data

\* the key of the seen set: `${item.user}:${item.description}`
DedupKey(item) == TemplateString(item.user) \o <<":">> \o TemplateString(item.description)

\* data.filter(item => { if (seen.has(key)) return false; seen.add(key); return true })
RECURSIVE DedupFrom(_, _)
DedupFrom(data, seen) ==
  IF data = <<>> THEN <<>>
  ELSE IF DedupKey(Head(data)) \in seen THEN DedupFrom(Tail(data), seen)
  ELSE <<Head(data)>> \o DedupFrom(Tail(data), seen \cup {DedupKey(Head(data))})

\* the self filter left out
KeepSelf(item) == TRUE

\* item.user !== username
NotSelf(item) == item.user # Str(username)

TaggedNormalize(data) == DedupFrom(SelectSeq(data, NotSelf), {})

\* an exception of a data mapper ends elements.map(dataMapper): the catch block
\* of fetchTabContentCallback is entered and no data is set
MapperThrows(tab, elements) ==
  \E i \in 1..Len(elements) : dataMapper(tab, elements[i]) = Thrown

\* everything fetchTabContentCallback does to the matched elements before setItems
Normalize(tab, elements) ==
  LET mapped == [i \in 1..Len(elements) |-> dataMapper(tab, elements[i])]
      data == ExpandVideoArrays(SelectSeq(mapped, KeepItem))
  IN IF tab = "tagged" THEN TaggedNormalize(data) ELSE data

(***************************************************************************)
(* SnapchatScraper: parseTabContent and the tile parsers.                  *)
(* A scraper document gives, per selector of the table, the elements that  *)
(* selector matches; an element is a record of what extractTileData reads. *)
(***************************************************************************)
\* the length extractTileData cuts a description taken from the element's text to
DescriptionLimit == 100

selectorsSpotlight == <<"SpotlightResultTile_container", "spotlight-tile-testid", "spotlight-tile", "tile-container">>

selectorsStories == <<"StoryCard", "story-card-testid", "story-container">>

\* str.slice(0, n)
Slice(str, n) == SubSeq(str, 1, IF Len(str) < n THEN Len(str) ELSE n)

extractTileData(el, type) ==
  [thumbnail |-> Or(Or(el.img, el.bg), el.dataThumbnail),
   description |-> Or(Str(Trim(el.descText)), Str(Slice(Trim(el.text), DescriptionLimit))),
   user |-> Str(Trim(el.userText)),
   title |-> IF type = "story" THEN Str(Trim(el.titleText)) ELSE Null]

KeepSpotlightTile(tile) == Truthy(tile.thumbnail) \/ Truthy(tile.description)

KeepStoryCard(card) == Truthy(card.thumbnail) \/ Truthy(card.title)

\* the loop over the selector list: the elements of the first selector that matches
RECURSIVE FirstMatching(_, _, _)
FirstMatching(doc, selectors, i) ==
  IF i > Len(selectors) THEN <<>>
  ELSE IF Len(doc[i]) > 0 THEN doc[i]
  ELSE FirstMatching(doc, selectors, i + 1)

parseSpotlightTiles(doc) ==
  LET elements == FirstMatching(doc, selectorsSpotlight, 1)
  IN SelectSeq([i \in 1..Len(elements) |-> extractTileData(elements[i], "spotlight")],
               KeepSpotlightTile)

parseStoryCards(doc) ==
  LET elements == FirstMatching(doc, selectorsStories, 1)
  IN SelectSeq([i \in 1..Len(elements) |-> extractTileData(elements[i], "story")],
               KeepStoryCard)

parseTabContent(doc, tab) ==
  CASE tab = "Spotlight" -> parseSpotlightTiles(doc)
    [] tab = "Stories" -> parseStoryCards(doc)
    [] OTHER -> <<>>

(***************************************************************************)
(* The documents the normalisation is run on.                              *)
(***************************************************************************)
\* the most elements one selector matches in a document
MaxTiles == 3

\* all lists of at most n members of S
Lists(S, n) == UNION {[1..k -> S] : k \in 0..n}

Thumb == Str(<<"t">>)

StoriesElements ==
  {[Element EXCEPT !.tag = "A", !.text = t, !.img = i] :
      t \in {<<"a", "b", "c">>, <<"a", "b">>, <<"S", "o", "r", "t", " ", "b", "y">>},
      i \in {Undefined, Thumb}}
  \cup {[Element EXCEPT !.tag = "IMG", !.nearTitle = t, !.img = Thumb] :
           t \in {<<>>, <<"a", "b", "c">>}}
  \cup {[Element EXCEPT !.tag = "H5", !.text = <<"a", "b", "c">>],
        [Element EXCEPT !.tag = "DIV", !.text = <<"a", "b", "c">>]}

SpotlightPayloads ==
  {MalformedJson,
   JsonObject(Str(<<"P">>), FALSE, Str(<<"b">>), Str(<<"c">>)),
   JsonObject(VideoObject, FALSE, Undefined, Undefined),
   JsonObject(VideoObject, FALSE, Str(<<"b">>), Str(<<"c">>)),
   JsonArray(<<JsonObject(VideoObject, FALSE, Str(<<"b">>), Str(<<"c">>)),
               JsonObject(Str(<<"P">>), FALSE, Str(<<"b">>), Str(<<"d">>))>>)}

SpotlightElements ==
  {[Element EXCEPT !.tag = "A", !.text = t, !.hrefUser = u, !.img = i] :
      t \in {<<>>, <<"1", "2", "K", " ", "3", "K", " ", "5", "0", "0">>,
             <<"c", "7", " ", "1", "2", "K">>},
      u \in {Undefined, Str(<<"b">>)},
      i \in {Undefined, Thumb}}
  \cup {[Element EXCEPT !.tag = "SCRIPT", !.json = j] : j \in SpotlightPayloads}

LensesElements ==
  {[Element EXCEPT !.tag = "A", !.text = t, !.p = d, !.img = i] :
      t \in {<<>>, <<"c">>}, d \in {Undefined, Str(<<"d">>)}, i \in {Undefined, Thumb}}

TaggedUsers ==
  {Undefined, Str(username), Str(<<"b">>), Str(<<"b", ":">>),
   Str(<<"u", "n", "d", "e", "f", "i", "n", "e", "d">>)}

TaggedTexts == {Null, Str(<<"#", "c">>), Str(<<":", "#", "c">>)}

TaggedPayloads ==
  {MalformedJson,
   JsonObject(Str(<<"P">>), TRUE, Str(<<"b">>), Str(<<"#", "c">>)),
   JsonObject(VideoObject, FALSE, Str(<<"b">>), Str(<<"#", "c">>)),
   JsonObject(VideoObject, TRUE, Str(<<"b">>), Str(<<"#", "c">>)),
   JsonObject(VideoObject, TRUE, Undefined, Undefined)}

TaggedElements ==
  {[Element EXCEPT !.tag = "A", !.hrefUser = u, !.pText = d, !.img = Thumb] :
      u \in TaggedUsers, d \in TaggedTexts}
  \cup {[Element EXCEPT !.tag = "SCRIPT", !.json = j] : j \in TaggedPayloads}

RelatedElements ==
  {[Element EXCEPT !.tag = "A", !.addUser = u, !.h5 = h, !.p = d, !.img = i] :
      u \in {Undefined, Str(<<"b">>)},
      h \in {Undefined, Str(<<>>), Str(<<"b">>)},
      d \in {Undefined, Str(<<"c">>)},
      i \in {Undefined}}

\* the elements doc.querySelectorAll(selector) can give for a tab
TabElements(tab) ==
  CASE tab = "stories" -> StoriesElements
    [] tab = "spotlight" -> SpotlightElements
    [] tab = "lenses" -> LensesElements
    [] tab = "tagged" -> TaggedElements
    [] tab = "related" -> RelatedElements

ScraperElement ==
  [img |-> Undefined, bg |-> Undefined, dataThumbnail |-> Undefined,
   descText |-> <<>>, text |-> <<>>, userText |-> <<>>, titleText |-> <<>>]

ScraperElements ==
  {ScraperElement,
   [ScraperElement EXCEPT !.img = Thumb],
   [ScraperElement EXCEPT !.dataThumbnail = Thumb, !.titleText = <<"s">>],
   [ScraperElement EXCEPT !.text = <<" ", "x">>, !.userText = <<"b">>],
   [ScraperElement EXCEPT !.img = Thumb, !.descText = <<"d">>, !.userText = <<"b">>,
                          !.titleText = <<"s">>]}

ScraperTabs == {"Spotlight", "Stories", "Lenses"}

ScraperSelectors(tab) == IF tab = "Stories" THEN selectorsStories ELSE selectorsSpotlight

\* documents in which the selectors before the k-th match nothing
ScraperDocs(tab) ==
  LET n == Len(ScraperSelectors(tab))
  IN {[i \in 1..n |-> IF i = k THEN l ELSE IF i > k THEN m ELSE <<>>] :
        k \in 1..n, l \in Lists(ScraperElements, MaxTiles), m \in Lists(ScraperElements, 1)}

(***************************************************************************)
(* Tabs.jsx: the component.  items, loading, activeTab and availableTabs   *)
(* are its state, requestIdRef its ref; pending holds the calls of         *)
(* fetchTabContentCallback that wait for the response ("fetch") or for its *)
(* body ("text").  itemsReq is the request whose data setItems last        *)
(* stored, dropped the requests whose data the guard discarded.            *)
(* loaded holds the tabs whose page has been fetched and parsed, failed    *)
(* the requests that ended in the catch block, itemsTab the tab of the     *)
(* request whose data setItems last stored.                                *)
(***************************************************************************)
\* the most calls of fetchTabContentCallback in one run of the model
MaxRequests == 3

staticTabs == {"stories", "spotlight", "lenses", "tagged", "related"}

TabsInit ==
  /\ requestIdRef = 0
  /\ items = <<>>
  /\ itemsReq = 0
  /\ dropped = {}
  /\ loading = FALSE
  /\ pending = {}
  /\ activeTab = "spotlight"
  /\ availableTabs = staticTabs
  /\ mounted = FALSE
  /\ loaded = {}
  /\ failed = {}
  /\ itemsTab = "none"

\* the documents a tab request is answered with
ResponseDocs(tab) ==
  {<<>>} \cup {<<e>> : e \in {x \in TabElements(tab) : x.tag = "A" /\ x.img = Thumb}}

\* the guard left out: every response counts as current
IsCurrentAlways(reqId) == TRUE

\* requestIdRef.current === reqId
IsCurrent(reqId) == requestIdRef = reqId

\* fetchTabContentCallback(tab) up to its first await
IssueRequest(tab) ==
  /\ requestIdRef < MaxRequests
  /\ requestIdRef' = requestIdRef + 1
  /\ loading' = TRUE
  /\ pending' = pending \cup {[id |-> requestIdRef + 1, tab |-> tab, phase |-> "fetch"]}
  /\ UNCHANGED <<items, itemsReq, dropped>>

\* the effect on [username, activeTab, availableTabs], run for the active tab
\* and the available set of the new render
LoadTab(tab, available) ==
  IF tab \in available
  THEN IssueRequest(tab)
  ELSE UNCHANGED <<requestIdRef, loading, pending, items, itemsReq, dropped>>

LoadActiveTab(tab) == LoadTab(tab, availableTabs)

\* the two effects of the first render: checkAllTabsForContentCallback sets
\* availableTabs to a new Set of the static tabs and, where the window has
\* requestIdleCallback, schedules the validation; the effect on activeTab and
\* availableTabs loads the active tab, and runs once more for the new Set
Mount ==
  /\ ~mounted
  /\ mounted' = TRUE
  /\ availableTabs' = staticTabs
  /\ \E hasIdleCallback \in BOOLEAN :
       vPc' = IF hasIdleCallback THEN "scheduled" ELSE "none"
  /\ requestIdRef + 2 <= MaxRequests
  /\ requestIdRef' = requestIdRef + 2
  /\ loading' = TRUE
  /\ pending' = pending \cup {[id |-> requestIdRef + 1, tab |-> activeTab, phase |-> "fetch"],
                              [id |-> requestIdRef + 2, tab |-> activeTab, phase |-> "fetch"]}
  /\ UNCHANGED <<items, itemsReq, dropped, activeTab, loaded, itemsTab, failed>>
  /\ UNCHANGED <<vRealTabs, vIndex, vWithContent, parsedStatuses, vFailed, vSincePause>>
  /\ UNCHANGED <<normVars, cacheVars, cascVars, resVars, modalVars, fmtVars>>

\* a click on a tab button, or a key on one (only the buttons of the available
\* tabs are rendered): setActiveTab(tab), then the effect
SelectTab(tab) ==
  /\ mounted
  /\ tab \in availableTabs
  /\ tab # activeTab
  /\ activeTab' = tab
  /\ LoadActiveTab(tab)
  /\ UNCHANGED <<availableTabs, mounted, loaded, itemsTab, failed>>
  /\ UNCHANGED <<normVars, cacheVars, cascVars, resVars, valVars, modalVars, fmtVars>>

\* a finally block without the guard: any completion clears the flag
LoadingCleared(r) == FALSE

\* if (requestIdRef.current === reqId) setLoading(false)
LoadingAfter(r) == IF IsCurrent(r.id) THEN FALSE ELSE loading

\* the finally block of fetchTabContentCallback
Finally(r) ==
  /\ loading' = LoadingAfter(r)
  /\ pending' = pending \ {r}

\* a catch block that clears the list
ItemsClearedOnError == <<>>

\* the catch block of fetchTabContentCallback: existing items stay visible
ItemsAfterError == items

\* fetch(url) rejects, or answers with a status that is not ok: the catch block
FetchFailed(r) ==
  /\ r \in pending
  /\ r.phase = "fetch"
  /\ failed' = failed \cup {r.id}
  /\ items' = ItemsAfterError
  /\ Finally(r)
  /\ UNCHANGED <<requestIdRef, itemsReq, dropped, activeTab, availableTabs, mounted, loaded, itemsTab>>
  /\ UNCHANGED <<normVars, cacheVars, cascVars, resVars, valVars, modalVars, fmtVars>>

\* fetch(url) answers ok: await res.text()
FetchOk(r) ==
  /\ r \in pending
  /\ r.phase = "fetch"
  /\ pending' = (pending \ {r}) \cup {[r EXCEPT !.phase = "text"]}
  /\ UNCHANGED <<requestIdRef, items, itemsReq, dropped, loading, activeTab, availableTabs, mounted, loaded, itemsTab, failed>>
  /\ UNCHANGED <<normVars, cacheVars, cascVars, resVars, valVars, modalVars, fmtVars>>

\* the body arrives: parse, map, filter, normalise, setItems under the guard
TextOk(r, elements) ==
  /\ r \in pending
  /\ r.phase = "text"
  /\ IF IsCurrent(r.id)
     THEN /\ items' = Normalize(r.tab, elements)
          /\ itemsReq' = r.id
          /\ itemsTab' = r.tab
          /\ UNCHANGED dropped
     ELSE /\ dropped' = dropped \cup {r.id}
          /\ UNCHANGED <<items, itemsReq, itemsTab>>
  /\ Finally(r)
  /\ loaded' = loaded \cup {r.tab}
  /\ UNCHANGED <<requestIdRef, activeTab, availableTabs, mounted, failed>>
  /\ UNCHANGED <<normVars, cacheVars, cascVars, resVars, valVars, modalVars, fmtVars>>

\* res.text() rejects: the catch block
TextFailed(r) ==
  /\ r \in pending
  /\ r.phase = "text"
  /\ failed' = failed \cup {r.id}
  /\ items' = ItemsAfterError
  /\ Finally(r)
  /\ UNCHANGED <<requestIdRef, itemsReq, dropped, activeTab, availableTabs, mounted, loaded, itemsTab>>
  /\ UNCHANGED <<normVars, cacheVars, cascVars, resVars, valVars, modalVars, fmtVars>>

TabsNext ==
  \/ Mount
  \/ \E tab \in staticTabs : SelectTab(tab)
  \/ \E r \in pending : FetchFailed(r)
  \/ \E r \in pending : FetchOk(r)
  \/ \E r \in pending : \E elements \in ResponseDocs(r.tab) : TextOk(r, elements)
  \/ \E r \in pending : TextFailed(r)

(***************************************************************************)
(* Tabs.jsx: the background validation started by                          *)
(* checkAllTabsForContentCallback.  vPc is where the idle callback stands: *)
(* "page" in parseTabsFromRealPage, "fallback" in its hasContentForTab     *)
(* probes, "pause" in the setTimeout of the loop over vRealTabs, "check"   *)
(* in its checkTabHasContent.  vFailed tells whether a request of the      *)
(* validation got no answer, vSincePause how many tab probes were issued   *)
(* since the validation started or last paused.                            *)
(* vWithContent is tabsWithContent.  parsedStatuses records, for the       *)
(* responses whose body was parsed, whether the status was a success.      *)
(***************************************************************************)
tabOrder == <<"stories", "spotlight", "lenses", "tagged", "related">>

\* the text of a tab heading, by tab
TabText(tab) ==
  CASE tab = "stories" -> <<"s", "t", "o", "r", "i", "e", "s">>
    [] tab = "spotlight" -> <<"s", "p", "o", "t", "l", "i", "g", "h", "t">>
    [] tab = "lenses" -> <<"l", "e", "n", "s", "e", "s">>
    [] tab = "tagged" -> <<"t", "a", "g", "g", "e", "d">>
    [] tab = "related" -> <<"r", "e", "l", "a", "t", "e", "d">>

\* the tabs of the headings of the tablist: heading?.textContent?.trim().toLowerCase()
\* compared with the five names
RECURSIVE TabsOfHeadings(_)
TabsOfHeadings(headings) ==
  IF headings = <<>> THEN <<>>
  ELSE LET tabText == Lower(Trim(Head(headings)))
           named == {tab \in staticTabs : TabText(tab) = tabText}
       IN (IF named = {} THEN <<>> ELSE <<CHOOSE tab \in named : TRUE>>)
          \o TabsOfHeadings(Tail(headings))

ValInit ==
  /\ vPc = "off"
  /\ vRealTabs = <<>>
  /\ vIndex = 0
  /\ vWithContent = {}
  /\ parsedStatuses = {}
  /\ vFailed = FALSE
  /\ vSincePause = 0

\* the tabs the subject's pages can have content for
ContentTabs == {"stories", "spotlight"}

Capital(tab) ==
  CASE tab = "stories" -> <<" ", "S", "t", "o", "r", "i", "e", "s", " ">>
    [] tab = "spotlight" -> <<"S", "p", "o", "t", "l", "i", "g", "h", "t">>

\* what the requests of the validation are answered with: no answer at all, or
\* a status and a body; a page body has the headings of its tablist, a tab body
\* the number of elements its selector matches
NoAnswer == [net |-> FALSE, ok |-> FALSE, headings |-> <<>>, count |-> 0]

PageAnswers ==
  {NoAnswer}
  \cup {[net |-> TRUE, ok |-> ok, headings |-> h, count |-> 0] :
          ok \in BOOLEAN,
          h \in {<<>>, <<Capital("spotlight")>>,
                 <<Capital("stories"), Capital("spotlight"), <<"H", "i">>>>}}

TabAnswers(tab) ==
  {NoAnswer}
  \cup {[net |-> TRUE, ok |-> ok, headings |-> <<>>, count |-> n] :
          ok \in BOOLEAN, n \in IF tab \in ContentTabs THEN {0, 1} ELSE {0}}

\* res.text() and the parse of the body: no status is looked at
BodyParsedOf(answer) ==
  IF answer.net THEN parsedStatuses \cup {answer.ok} ELSE parsedStatuses

\* hasContentForTab / checkTabHasContent: elements.length > 0, false on an error
HasContent(answer) == answer.net /\ answer.count > 0

\* the end of the idle callback: setAvailableTabs(tabsWithContent) unless they
\* are the static tabs, and the effect on availableTabs that follows
FinishValidation(tabsWithContent) ==
  /\ vPc' = "done"
  /\ vWithContent' = tabsWithContent
  /\ IF tabsWithContent # staticTabs
     THEN /\ availableTabs' = tabsWithContent
          /\ LoadTab(activeTab, tabsWithContent)
     ELSE UNCHANGED <<availableTabs, requestIdRef, loading, pending, items, itemsReq, dropped>>
  /\ UNCHANGED <<activeTab, mounted, loaded, itemsTab, failed>>

\* an await of the validation that leaves the component's state alone
ValidationContinues ==
  UNCHANGED <<tabVars>>

\* the idle callback starts: parseTabsFromRealPage fetches the profile page
StartValidation ==
  /\ vPc = "scheduled"
  /\ vPc' = "page"
  /\ UNCHANGED <<vRealTabs, vIndex, vWithContent, parsedStatuses, vFailed, vSincePause>>
  /\ ValidationContinues
  /\ UNCHANGED <<normVars, cacheVars, cascVars, resVars, modalVars, fmtVars>>

\* parseTabsFromRealPage after its fetch: [] from the catch block, the tabs of
\* the tablist, or the fallback to content detection when there are none
PageAnswered(answer) ==
  /\ vPc = "page"
  /\ parsedStatuses' = BodyParsedOf(answer)
  /\ vFailed' = (vFailed \/ ~answer.net)
  /\ IF ~answer.net
     THEN /\ vRealTabs' = <<>> /\ vIndex' = 1
          /\ UNCHANGED vSincePause
          /\ FinishValidation({})
     ELSE IF TabsOfHeadings(answer.headings) = <<>>
     THEN /\ vPc' = "fallback" /\ vRealTabs' = <<>> /\ vIndex' = 1
          /\ vSincePause' = vSincePause + 1
          /\ UNCHANGED vWithContent
          /\ ValidationContinues
     ELSE /\ vPc' = "pause" /\ vRealTabs' = TabsOfHeadings(answer.headings) /\ vIndex' = 1
          /\ UNCHANGED <<vWithContent, vSincePause>>
          /\ ValidationContinues
  /\ UNCHANGED <<normVars, cacheVars, cascVars, resVars, modalVars, fmtVars>>

\* one hasContentForTab of the fallback, in the order of the five tabs
FallbackProbed(answer) ==
  /\ vPc = "fallback"
  /\ parsedStatuses' = BodyParsedOf(answer)
  /\ vFailed' = (vFailed \/ ~answer.net)
  /\ LET found == IF HasContent(answer)
                  THEN Append(vRealTabs, tabOrder[vIndex]) ELSE vRealTabs
     IN /\ vRealTabs' = found
        /\ IF vIndex < Len(tabOrder)
           THEN /\ vIndex' = vIndex + 1
                /\ vSincePause' = vSincePause + 1
                /\ UNCHANGED <<vPc, vWithContent>>
                /\ ValidationContinues
           ELSE /\ vIndex' = 1
                /\ UNCHANGED vSincePause
                /\ IF found = <<>>
                   THEN FinishValidation({})
                   ELSE vPc' = "pause" /\ UNCHANGED vWithContent /\ ValidationContinues
  /\ UNCHANGED <<normVars, cacheVars, cascVars, resVars, modalVars, fmtVars>>

\* the pause of a round of the loop over realTabs ends: checkTabHasContent(tab)
TimeoutElapsed ==
  /\ vPc = "pause"
  /\ vPc' = "check"
  /\ vSincePause' = 1
  /\ UNCHANGED <<vRealTabs, vIndex, vWithContent, parsedStatuses, vFailed>>
  /\ ValidationContinues
  /\ UNCHANGED <<normVars, cacheVars, cascVars, resVars, modalVars, fmtVars>>

\* checkTabHasContent of a round answers: the next round, or the end
TabChecked(answer) ==
  /\ vPc = "check"
  /\ vIndex <= Len(vRealTabs)
  /\ parsedStatuses' = BodyParsedOf(answer)
  /\ vFailed' = (vFailed \/ ~answer.net)
  /\ UNCHANGED vSincePause
  /\ LET tabsWithContent == IF HasContent(answer)
                            THEN vWithContent \cup {vRealTabs[vIndex]} ELSE vWithContent
     IN /\ vIndex' = vIndex + 1
        /\ IF vIndex < Len(vRealTabs)
           THEN /\ vWithContent' = tabsWithContent
                /\ vPc' = "pause"
                /\ ValidationContinues
           ELSE FinishValidation(tabsWithContent)
  /\ UNCHANGED vRealTabs
  /\ UNCHANGED <<normVars, cacheVars, cascVars, resVars, modalVars, fmtVars>>

ValidationNext ==
  \/ StartValidation
  \/ \E answer \in PageAnswers : PageAnswered(answer)
  \/ TimeoutElapsed
  \/ vPc = "fallback" /\ \E answer \in TabAnswers(tabOrder[vIndex]) : FallbackProbed(answer)
  \/ /\ vPc = "check" /\ vIndex <= Len(vRealTabs)
     /\ \E answer \in TabAnswers(vRealTabs[vIndex]) : TabChecked(answer)

(***************************************************************************)
(* SnapchatScraper: the node-cache and the two cached fetches.             *)
(* cache maps a key to its entry; an entry holds the value and the time it *)
(* was set.  calls holds the calls that wait for the response ("fetch") or *)
(* its body ("text").  fetches and lookups count, per key, the upstream    *)
(* requests issued and the calls made; rejected holds the calls whose       *)
(* promise rejected; lastHit is what the most recent                       *)
(* cache hit returned.                                                     *)
(***************************************************************************)
\* new NodeCache({ stdTTL: 300 }): seconds an entry lives
stdTTL == 300

\* seconds the clock advances in one step, and the last instant modelled
TickSeconds == 150

MaxNow == 450

\* the most calls of fetchProfile / fetchTabContent in one run of the model
MaxCalls == 3

ScraperUsers == {<<"a">>}

CachedTabs == {<<"Spotlight">>}

\* `profile:${username}`
ProfileKey(user) == <<"profile", ":">> \o user

\* `tab:${username}:${tab}`
TabKey(user, tab) == <<"tab", ":">> \o user \o <<":">> \o tab

CacheKeys ==
  {ProfileKey(u) : u \in ScraperUsers}
  \cup {TabKey(u, t) : u \in ScraperUsers, t \in CachedTabs}

NoEntry == [present |-> FALSE, value |-> "", createdAt |-> 0]

NoHit == [key |-> <<>>, value |-> ""]

\* what the upstream pages parse to
PageData == {"d1", "d2"}

CacheInit ==
  /\ cache = [k \in CacheKeys |-> NoEntry]
  /\ now = 0
  /\ calls = {}
  /\ fetches = [k \in CacheKeys |-> 0]
  /\ lookups = [k \in CacheKeys |-> 0]
  /\ lastHit = NoHit
  /\ rejected = {}

\* an entry that never expires
LiveForever(entry) == entry.present

\* an entry that get() still returns: node-cache drops it once its time is past
Live(entry) == entry.present /\ now - entry.createdAt <= stdTTL

\* this.cache.get(cacheKey): the entry, or nothing
cacheGet(key) == IF Live(cache[key]) THEN cache[key] ELSE NoEntry

\* this.cache.set(cacheKey, data)
cacheSet(key, data) ==
  [cache EXCEPT ![key] = [present |-> TRUE, value |-> data, createdAt |-> now]]

RECURSIVE SumOver(_, _)
SumOver(f, S) ==
  IF S = {} THEN 0
  ELSE LET k == CHOOSE x \in S : TRUE IN f[k] + SumOver(f, S \ {k})

\* fetchProfile / fetchTabContent up to the first await
CachedFetch(key, op) ==
  /\ SumOver(lookups, CacheKeys) < MaxCalls
  /\ lookups' = [lookups EXCEPT ![key] = @ + 1]
  /\ IF cacheGet(key).present
     THEN /\ lastHit' = [key |-> key, value |-> cacheGet(key).value]
          /\ UNCHANGED <<cache, calls, fetches>>
     ELSE /\ fetches' = [fetches EXCEPT ![key] = @ + 1]
          /\ calls' = calls \cup {[id |-> SumOver(lookups, CacheKeys) + 1, key |-> key,
                                    op |-> op, phase |-> "fetch"]}
          \* an expired entry is deleted by the get that finds it
          /\ cache' = [cache EXCEPT ![key] = NoEntry]
          /\ UNCHANGED lastHit
  /\ UNCHANGED <<now, rejected>>
  /\ UNCHANGED <<tabVars, normVars, cascVars, resVars, valVars, modalVars, fmtVars>>

fetchProfile(user) == CachedFetch(ProfileKey(user), "profile")

fetchTabContent(user, tab) == CachedFetch(TabKey(user, tab), "tab")

\* what the catch block of a cached fetch does with the error: fetchProfile
\* throws a new Error, fetchTabContent returns []
CatchOf(op) == IF op = "profile" THEN "throw" ELSE "return"

\* a catch block that remembered the failure of key as an empty result
CacheFailureStored(key) == cacheSet(key, "empty")

\* the cache after the catch block of a cached fetch: no cache.set in it
CacheAfterFailure(key) == cache

\* the fetch rejects or the status is not ok: the catch block, nothing is cached
UpstreamFailed(c) ==
  /\ c \in calls
  /\ calls' = calls \ {c}
  /\ rejected' = IF CatchOf(c.op) = "throw" THEN rejected \cup {c.id} ELSE rejected
  /\ cache' = CacheAfterFailure(c.key)
  /\ UNCHANGED <<now, fetches, lookups, lastHit>>
  /\ UNCHANGED <<tabVars, normVars, cascVars, resVars, valVars, modalVars, fmtVars>>

\* the response is ok: await response.text()
UpstreamOk(c) ==
  /\ c \in calls
  /\ c.phase = "fetch"
  /\ calls' = (calls \ {c}) \cup {[c EXCEPT !.phase = "text"]}
  /\ UNCHANGED <<cache, now, fetches, lookups, lastHit, rejected>>
  /\ UNCHANGED <<tabVars, normVars, cascVars, resVars, valVars, modalVars, fmtVars>>

\* the body arrives: parse it, cache.set, return the data
BodyParsed(c, data) ==
  /\ c \in calls
  /\ c.phase = "text"
  /\ cache' = cacheSet(c.key, data)
  /\ calls' = calls \ {c}
  /\ UNCHANGED <<now, fetches, lookups, lastHit, rejected>>
  /\ UNCHANGED <<tabVars, normVars, cascVars, resVars, valVars, modalVars, fmtVars>>

Tick ==
  /\ now + TickSeconds <= MaxNow
  /\ now' = now + TickSeconds
  /\ UNCHANGED <<cache, calls, fetches, lookups, lastHit, rejected>>
  /\ UNCHANGED <<tabVars, normVars, cascVars, resVars, valVars, modalVars, fmtVars>>

CacheNext ==
  \/ \E u \in ScraperUsers : fetchProfile(u)
  \/ \E u \in ScraperUsers : \E t \in CachedTabs : fetchTabContent(u, t)
  \/ \E c \in calls : UpstreamFailed(c)
  \/ \E c \in calls : UpstreamOk(c)
  \/ \E c \in calls : \E d \in PageData : BodyParsed(c, d)
  \/ Tick

(***************************************************************************)
(* SnapchatScraper: findWithFallback and parseProfile.                     *)
(* A profile document gives, per selector of the table, whether $(selector)*)
(* is empty and, if not, the attributes of its first element and its text. *)
(***************************************************************************)
selectorsProfile ==
  [title |-> <<"og:title", "title", "h1">>,
   description |-> <<"og:description", "meta-description">>,
   image |-> <<"og:image", "profile-image">>,
   nextData |-> <<"__NEXT_DATA__", "application/json">>]

ProfileFields == {"title", "description", "image", "nextData"}

ProfileSelectors ==
  {"og:title", "title", "h1", "og:description", "meta-description", "og:image",
   "profile-image", "__NEXT_DATA__", "application/json"}

NoMatch == [matched |-> FALSE, content |-> Undefined, src |-> Undefined, text |-> <<>>]

\* $(selector).attr(attr) / $(selector).text().trim() of a non-empty selection
NodeValue(node, attr) ==
  CASE attr = "text" -> Str(Trim(node.text))
    [] attr = "content" -> node.content
    [] attr = "src" -> node.src

\* the loop of findWithFallback from selector i on: the value returned, how many
\* selectors were evaluated, and whether it threw
RECURSIVE FindFrom(_, _, _, _)
FindFrom(doc, selectors, attr, i) ==
  IF i > Len(selectors)
  THEN [value |-> Null, evaluated |-> Len(selectors), raised |-> FALSE]
  ELSE IF doc[selectors[i]].matched
       THEN [value |-> NodeValue(doc[selectors[i]], attr), evaluated |-> i, raised |-> FALSE]
       ELSE FindFrom(doc, selectors, attr, i + 1)

\* an extractor that throws when no selector matches
findWithFallbackOrThrow(doc, selectors, attr) ==
  LET r == FindFrom(doc, selectors, attr, 1)
  IN IF \A i \in 1..Len(selectors) : ~doc[selectors[i]].matched
     THEN [r EXCEPT !.raised = TRUE]
     ELSE r

findWithFallback(doc, selectors, attr) == FindFrom(doc, selectors, attr, 1)

\* JSON.parse of the text of a data script
JsonParse(text) ==
  CASE text = <<"{", "count", "}">> -> [ok |-> TRUE, subscriberCount |-> Str(<<"7">>)]
    [] text = <<"{", "}">> -> [ok |-> TRUE, subscriberCount |-> Null]
    [] OTHER -> [ok |-> FALSE, subscriberCount |-> Null]

\* the subscriber count of parseProfile; bodyCount is what the pattern
\* /(\d+(?:,\d+)*)\s*subscribers?/i finds in the body text
SubscriberCount(doc, bodyCount) ==
  LET nextDataScript == findWithFallback(doc, selectorsProfile.nextData, "text").value
  IN IF Truthy(nextDataScript)
     THEN IF JsonParse(nextDataScript.s).ok
          THEN JsonParse(nextDataScript.s).subscriberCount
          ELSE bodyCount
     ELSE Null

parseProfile(doc, bodyCount) ==
  [title |-> Or(findWithFallback(doc, selectorsProfile.title, "content").value,
                findWithFallback(doc, selectorsProfile.title, "text").value),
   description |-> findWithFallback(doc, selectorsProfile.description, "content").value,
   image |-> Or(findWithFallback(doc, selectorsProfile.image, "content").value,
                findWithFallback(doc, selectorsProfile.image, "src").value),
   subscriberCount |-> SubscriberCount(doc, bodyCount)]

NoRecord == [title |-> Null, description |-> Null, image |-> Null, subscriberCount |-> Null]

\* the nodes a selector of the document can select, by kind
NodeKinds == {"none", "bare", "attr", "text", "count", "nocount", "bad"}

KindsOf(sel) ==
  IF sel \in {"__NEXT_DATA__", "application/json"}
  THEN {"none", "bare", "count", "nocount", "bad"}
  ELSE {"none", "bare", "attr", "text"}

NodeOf(sel, kind) ==
  CASE kind = "none" -> NoMatch
    [] kind = "bare" -> [NoMatch EXCEPT !.matched = TRUE]
    [] kind = "attr" -> [NoMatch EXCEPT !.matched = TRUE, !.content = Str(<<sel, "@content">>)]
    [] kind = "text" -> [NoMatch EXCEPT !.matched = TRUE, !.src = Str(<<sel, "@src">>),
                                        !.text = <<" ", sel, "#text", " ">>]
    [] kind = "count" -> [NoMatch EXCEPT !.matched = TRUE, !.text = <<"{", "count", "}">>]
    [] kind = "nocount" -> [NoMatch EXCEPT !.matched = TRUE, !.text = <<"{", "}">>]
    [] kind = "bad" -> [NoMatch EXCEPT !.matched = TRUE, !.text = <<"{">>]

FieldSelectors(f) == {selectorsProfile[f][i] : i \in 1..Len(selectorsProfile[f])}

\* the empty page, and a page on which every selector finds a full node
BaseKinds ==
  {[sel \in ProfileSelectors |-> "none"],
   [sel \in ProfileSelectors |->
      IF sel \in {"__NEXT_DATA__", "application/json"} THEN "count" ELSE "attr"]}

\* documents that differ from a base page in the selectors of one field
ProfileDocs ==
  UNION {{[sel \in ProfileSelectors |->
             NodeOf(sel, IF sel \in FieldSelectors(f) THEN g[sel] ELSE base[sel])] :
            g \in {h \in [FieldSelectors(f) -> NodeKinds] :
                     \A sel \in FieldSelectors(f) : h[sel] \in KindsOf(sel)}} :
         f \in ProfileFields, base \in BaseKinds}

EmptyDoc == [sel \in ProfileSelectors |-> NoMatch]

CascInit ==
  /\ cPc = "input"
  /\ cDoc \in ProfileDocs
  /\ cBody \in {Null, Str(<<"5">>)}
  /\ cField = "title"
  /\ cAttr = "content"
  /\ cResult = Null
  /\ cEvaluated = 0
  /\ cRaised = FALSE
  /\ cRecord = NoRecord

\* one call of findWithFallback on the document
FindWithFallbackCall(field, attr) ==
  /\ cPc = "input"
  /\ cPc' = "found"
  /\ cField' = field
  /\ cAttr' = attr
  /\ LET r == findWithFallback(cDoc, selectorsProfile[field], attr)
     IN /\ cResult' = r.value
        /\ cEvaluated' = r.evaluated
        /\ cRaised' = r.raised
  /\ UNCHANGED <<cDoc, cBody, cRecord>>
  /\ UNCHANGED <<tabVars, normVars, cacheVars, resVars, valVars, modalVars, fmtVars>>

\* one call of parseProfile on the document
ParseProfileCall ==
  /\ cPc = "input"
  /\ cPc' = "parsed"
  /\ cRecord' = parseProfile(cDoc, cBody)
  /\ UNCHANGED <<cDoc, cBody, cField, cAttr, cResult, cEvaluated, cRaised>>
  /\ UNCHANGED <<tabVars, normVars, cacheVars, resVars, valVars, modalVars, fmtVars>>

CascNext ==
  \/ \E f \in ProfileFields : \E a \in {"content", "src", "text"} : FindWithFallbackCall(f, a)
  \/ ParseProfileCall

(***************************************************************************)
(* ContentModal: getVideoUrl.                                              *)
(* A URL is a sequence of tokens (a scheme-and-host token, path segments,  *)
(* an extension, a query), so that includes() and the extension patterns   *)
(* are tests on its tokens.  A decoded JSON value is a record: a string,   *)
(* an object (its properties in order), an array, or another primitive.    *)
(***************************************************************************)
SnapHost == "https://www.snapchat.com/"

CdnHost == "https://cf-st.sc-cdn.net/"

StorageHost == "https://snap-dev.storage.googleapis.com/"

OtherHost == "https://example.com/"

\* url.includes(part), for the parts getVideoUrl looks for
UrlIncludes(url, part) ==
  CASE part = ".mp4" -> \E i \in 1..Len(url) : url[i] = ".mp4"
    [] part = "cf-st.sc-cdn.net" -> \E i \in 1..Len(url) : url[i] = CdnHost
    [] part = "googleapis.com" -> \E i \in 1..Len(url) : url[i] = StorageHost
    [] part = "snap-dev.storage.googleapis.com" -> \E i \in 1..Len(url) : url[i] = StorageHost
    [] part = "snapchat.com" -> \E i \in 1..Len(url) : url[i] = SnapHost
    [] part = "snapchat.com/" -> \E i \in 1..Len(url) : url[i] = SnapHost
    [] part = "media" -> \E i \in 1..Len(url) : url[i] = "media/"
    [] part = "thumb" -> \E i \in 1..Len(url) : url[i] = "thumb/"
    [] part = "poster" -> \E i \in 1..Len(url) : url[i] = "poster/"
    [] part = "preview" -> \E i \in 1..Len(url) : url[i] = "preview/"

IsQuery(token) == token = "?q"

\* url.match(/\.(mp4|webm|ogg|mov)$/i)
IsDirectVideoUrl(url) ==
  url # <<>> /\ url[Len(url)] \in {".mp4", ".MP4", ".webm", ".ogg", ".mov"}

\* value.match(/\.(mp4|webm|mov|m4v)(\?.*)?$/i)
EndsInVideoExtension(url) ==
  LET exts == {".mp4", ".MP4", ".webm", ".mov", ".m4v"}
  IN \/ url # <<>> /\ url[Len(url)] \in exts
     \/ Len(url) >= 2 /\ IsQuery(url[Len(url)]) /\ url[Len(url) - 1] \in exts

JStr(url) == [k |-> "str", s |-> url, props |-> <<>>, elems |-> <<>>]

JObj(props) == [k |-> "obj", s |-> <<>>, props |-> props, elems |-> <<>>]

JArr(elems) == [k |-> "arr", s |-> <<>>, props |-> <<>>, elems |-> elems]

JNull == [k |-> "null", s |-> <<>>, props |-> <<>>, elems |-> <<>>]

Prop(key, val) == [key |-> key, val |-> val]

videoProps ==
  <<"videoUrl", "contentUrl", "url", "src", "href",
    "mediaUrl", "playbackUrl", "streamUrl", "hlsUrl", "dashUrl",
    "videoPlaybackUrl", "directUrl", "cdnUrl", "assetUrl",
    "mp4Url", "webmUrl", "videoSrc", "videoHref", "playUrl",
    "media_url", "video_url", "stream_url", "playback_url">>

\* the keys deepVideoSearch does not descend into, compared in lower case
excludedKeys == {"thumbnail", "poster", "preview", "icon"}

KeyLower(key) == IF key = "Poster" THEN "poster" ELSE key

\* the depth below which deepVideoSearch returns nothing
MaxSearchDepth == 10

\* obj[prop] of a decoded object: its value, or JNull when it has none
PropValue(obj, prop) ==
  IF obj.k = "obj" /\ \E i \in 1..Len(obj.props) : obj.props[i].key = prop
  THEN obj.props[CHOOSE i \in 1..Len(obj.props) : obj.props[i].key = prop].val
  ELSE JNull

\* the test of a property value in deepVideoSearch
IsVideoValue(value) ==
  /\ value.k = "str"
  /\ value.s # <<>>
  /\ \/ EndsInVideoExtension(value.s)
     \/ UrlIncludes(value.s, "cf-st.sc-cdn.net")
     \/ UrlIncludes(value.s, "snap-dev.storage.googleapis.com")
     \/ UrlIncludes(value.s, "snapchat.com/") /\ UrlIncludes(value.s, "media")

Candidate(value) ==
  [url |-> value.s, confidence |-> IF UrlIncludes(value.s, ".mp4") THEN "high" ELSE "medium"]

\* the loop over videoProps from the i-th name on
RECURSIVE OwnCandidates(_, _)
OwnCandidates(obj, i) ==
  IF i > Len(videoProps) THEN <<>>
  ELSE (IF IsVideoValue(PropValue(obj, videoProps[i]))
        THEN <<Candidate(PropValue(obj, videoProps[i]))>> ELSE <<>>)
       \o OwnCandidates(obj, i + 1)

\* a search without the depth test
DepthNeverExceeded(depth) == FALSE

\* depth > 10
DepthExceeded(depth) == depth > MaxSearchDepth

RECURSIVE deepVideoSearch(_, _)
RECURSIVE SearchElems(_, _, _)
RECURSIVE SearchProps(_, _, _)

deepVideoSearch(obj, depth) ==
  IF obj.k \notin {"obj", "arr"} \/ DepthExceeded(depth) THEN <<>>
  ELSE OwnCandidates(obj, 1)
       \o (IF obj.k = "arr" THEN SearchElems(obj.elems, 1, depth)
           ELSE SearchProps(obj.props, 1, depth))

SearchElems(elems, i, depth) ==
  IF i > Len(elems) THEN <<>>
  ELSE deepVideoSearch(elems[i], depth + 1) \o SearchElems(elems, i + 1, depth)

SearchProps(props, i, depth) ==
  IF i > Len(props) THEN <<>>
  ELSE (IF KeyLower(props[i].key) \notin excludedKeys
        THEN deepVideoSearch(props[i].val, depth + 1) ELSE <<>>)
       \o SearchProps(props, i + 1, depth)

\* the candidates left in the order of the search
KeepSearchOrder(videoUrls) == videoUrls

\* videoUrls.sort(high confidence first), a stable sort
SortByConfidence(videoUrls) ==
  LET High(c) == c.confidence = "high"
      NotHigh(c) == c.confidence # "high"
  IN SelectSeq(videoUrls, High) \o SelectSeq(videoUrls, NotHigh)

NoUrl == [found |-> FALSE, url |-> <<>>, threw |-> FALSE]

Found(url) == [found |-> TRUE, url |-> url, threw |-> FALSE]

Threw == [found |-> FALSE, url |-> <<>>, threw |-> TRUE]

\* METHOD 1: the __NEXT_DATA__ script
Method1(doc) ==
  IF doc.nextData.kind # "parsed" THEN NoUrl
  ELSE LET videoUrls == deepVideoSearch(doc.nextData.data, 0)
       IN IF Len(videoUrls) > 0 THEN Found(SortByConfidence(videoUrls)[1].url) ELSE NoUrl

\* the selectors getVideoUrl passes to querySelectorAll, and those of them that
\* are selectors: '*[data-*]' is none ('*' cannot be part of an attribute name),
\* and querySelectorAll throws a SyntaxError on it
DataAttributeSelector == "*[data-*]"

ValidSelectors ==
  {"#__NEXT_DATA__", "video, source", "*[style*=\"background\"]", "script:not([src])",
   "script:not([type]), script[type=\"text/javascript\"]"}

\* the test of an attribute value in methods 2 and 3
IsMediaValue(value) ==
  /\ value # <<>>
  /\ \/ UrlIncludes(value, ".mp4")
     \/ UrlIncludes(value, "cf-st.sc-cdn.net")
     \/ UrlIncludes(value, "googleapis.com")

\* the first value of a list that passes the test
RECURSIVE FirstMedia(_, _)
FirstMedia(values, i) ==
  IF i > Len(values) THEN NoUrl
  ELSE IF IsMediaValue(values[i]) THEN Found(values[i])
  ELSE FirstMedia(values, i + 1)

\* METHOD 2: the data attributes with video/media/src/url in their name, in
\* document order
Method2(doc) ==
  IF DataAttributeSelector \notin ValidSelectors THEN Threw
  ELSE FirstMedia(doc.dataAttributes, 1)

\* METHOD 3: the src attributes of the video and source elements, in document
\* order and, per element, in the order of srcAttributes
Method3(doc) == FirstMedia(doc.videoSources, 1)

\* METHODS 4, 5, 6 and 8, by the URL they come to on the document
LaterMethods(doc) == doc.later

\* url.match(/\d+x\d+/)
HasDimensions(url) == \E i \in 1..Len(url) : url[i] = "640x480"

\* the length a script URL must exceed
MinScriptUrlLength == 20

\* url.length
RECURSIVE UrlLength(_)
UrlLength(url) == IF url = <<>> THEN 0 ELSE Len(Head(url)) + UrlLength(Tail(url))

\* the test of a URL matched in a script
IsScriptVideo(url) ==
  /\ ~UrlIncludes(url, "thumb")
  /\ ~UrlIncludes(url, "poster")
  /\ ~UrlIncludes(url, "preview")
  /\ ~HasDimensions(url)
  /\ UrlLength(url) > MinScriptUrlLength

\* the first of the matches that passes the test
RECURSIVE FirstScriptVideo(_, _)
FirstScriptVideo(matches, i) ==
  IF i > Len(matches) THEN NoUrl
  ELSE IF IsScriptVideo(matches[i]) THEN Found(matches[i])
  ELSE FirstScriptVideo(matches, i + 1)

\* METHOD 7: the URLs the video patterns match in the inline scripts, in the
\* order of scripts, patterns and positions
Method7(doc) == FirstScriptVideo(doc.scriptMatches, 1)

\* the body of the try block after the document is parsed: the URL returned,
\* the methods entered, and whether an exception reached the catch block
ExtractFromDocument(doc) ==
  LET m1 == Method1(doc)
      m2 == Method2(doc)
      m3 == Method3(doc)
      m4 == LaterMethods(doc)
  IN IF m1.found THEN [url |-> Str(m1.url), ran |-> <<1>>, threw |-> FALSE]
     ELSE IF m2.threw THEN [url |-> Null, ran |-> <<1, 2>>, threw |-> TRUE]
     ELSE IF m2.found THEN [url |-> Str(m2.url), ran |-> <<1, 2>>, threw |-> FALSE]
     ELSE IF m3.found THEN [url |-> Str(m3.url), ran |-> <<1, 2, 3>>, threw |-> FALSE]
     ELSE IF m4.found /\ m4.index < 7
          THEN [url |-> Str(m4.url), ran |-> [i \in 1..m4.index |-> i], threw |-> FALSE]
     ELSE IF Method7(doc).found
          THEN [url |-> Str(Method7(doc).url), ran |-> <<1, 2, 3, 4, 5, 6, 7>>, threw |-> FALSE]
     ELSE IF m4.found
          THEN [url |-> Str(m4.url), ran |-> [i \in 1..m4.index |-> i], threw |-> FALSE]
     ELSE [url |-> Null, ran |-> <<1, 2, 3, 4, 5, 6, 7, 8>>, threw |-> FALSE]

NoDoc ==
  [nextData |-> [kind |-> "absent", data |-> JNull], dataAttributes |-> <<>>,
   videoSources |-> <<>>, scriptMatches |-> <<>>,
   later |-> [found |-> FALSE, url |-> <<>>, index |-> 8]]

CdnVideo == <<CdnHost, "v1", ".mp4">>

WebmVideo == <<OtherHost, "v1", ".webm">>

ElementVideo == <<OtherHost, "v3", ".mp4">>

ScriptVideo == <<OtherHost, "v7", ".mp4">>

PosterImage == <<OtherHost, "p", ".jpg">>

ScriptThumb == <<OtherHost, "thumb/", "v7", ".mp4">>

ScriptSized == <<OtherHost, "640x480", "v7", ".mp4">>

CdnPlain == <<CdnHost, "v1">>

DeepVideo == <<OtherHost, "deep", ".mp4">>

\* value below n objects, each the only property of the one above
RECURSIVE Nested(_, _)
Nested(value, n) == IF n = 0 THEN value ELSE JObj(<<Prop("a", Nested(value, n - 1))>>)

\* an object with a video URL, n levels below the root of the payload
DeepPayload(n) == Nested(JObj(<<Prop("videoUrl", JStr(DeepVideo))>>), n)

NextDataPayloads ==
  {[kind |-> "absent", data |-> JNull],
   [kind |-> "malformed", data |-> JNull],
   [kind |-> "parsed", data |-> JObj(<<>>)],
   [kind |-> "parsed",
    data |-> JObj(<<Prop("props", JObj(<<Prop("videoUrl", JStr(CdnVideo))>>))>>)],
   [kind |-> "parsed",
    data |-> JObj(<<Prop("url", JStr(PosterImage)),
                    Prop("Poster", JObj(<<Prop("url", JStr(ScriptVideo))>>))>>)],
   [kind |-> "parsed",
    data |-> JArr(<<JObj(<<Prop("src", JStr(WebmVideo))>>),
                    JObj(<<Prop("src", JStr(CdnVideo))>>)>>)],
   [kind |-> "parsed",
    data |-> JArr(<<JObj(<<Prop("src", JStr(CdnPlain))>>),
                    JObj(<<Prop("src", JStr(WebmVideo))>>)>>)],
   [kind |-> "parsed", data |-> DeepPayload(MaxSearchDepth - 1)],
   [kind |-> "parsed", data |-> DeepPayload(MaxSearchDepth)],
   [kind |-> "parsed", data |-> DeepPayload(MaxSearchDepth + 1)]}

\* the documents the proxy answers with
VideoDocs ==
  {[nextData |-> n, dataAttributes |-> d, videoSources |-> v, scriptMatches |-> s,
    later |-> l] :
     n \in NextDataPayloads,
     d \in {<<>>, <<CdnVideo>>},
     v \in {<<>>, <<PosterImage>>, <<ElementVideo>>, <<PosterImage, ElementVideo>>},
     l \in {[found |-> FALSE, url |-> <<>>, index |-> 8],
            [found |-> TRUE, url |-> CdnVideo, index |-> 5]},
     s \in {<<>>, <<ScriptThumb, ScriptSized, <<"/v", ".mp4">>, ScriptVideo>>}}

\* the item URLs the modal is opened on
ItemUrls ==
  {Null, Str(<<>>), Str(<<OtherHost, "d", ".mp4">>), Str(<<OtherHost, "x">>),
   Str(<<SnapHost, "spotlight/", "vid123">>)}

\* a catch block that rethrows: the promise of getVideoUrl rejects
CatchAndRethrow == [pc |-> "rejected", result |-> Null]

\* the catch block of getVideoUrl: log the error, record it, return null
CatchBlock == [pc |-> "done", result |-> Null]

ResInit ==
  /\ rPc = "idle"
  /\ rUrl = Null
  /\ rDoc = NoDoc
  /\ rResult = Null
  /\ rRan = <<>>
  /\ rThrew = FALSE

\* getVideoUrl(snapchatUrl) up to the fetch of the page
GetVideoUrl(snapchatUrl) ==
  /\ rPc = "idle"
  /\ rUrl' = snapchatUrl
  /\ IF ~Truthy(snapchatUrl) THEN rPc' = "done" /\ rResult' = Null
     ELSE IF IsDirectVideoUrl(snapchatUrl.s) THEN rPc' = "done" /\ rResult' = snapchatUrl
     ELSE IF UrlIncludes(snapchatUrl.s, "snapchat.com") THEN rPc' = "fetch" /\ rResult' = Null
     ELSE rPc' = "done" /\ rResult' = Null
  /\ UNCHANGED <<rDoc, rRan, rThrew>>
  /\ UNCHANGED <<tabVars, normVars, cacheVars, cascVars, valVars, modalVars, fmtVars>>

\* the fetch or response.text() rejects, or the status is not ok: the catch block
ProxyFailed ==
  /\ rPc \in {"fetch", "text"}
  /\ rPc' = CatchBlock.pc
  /\ rResult' = CatchBlock.result
  /\ rThrew' = TRUE
  /\ UNCHANGED <<rUrl, rDoc, rRan>>
  /\ UNCHANGED <<tabVars, normVars, cacheVars, cascVars, valVars, modalVars, fmtVars>>

\* the response is ok: await response.text()
ProxyOk ==
  /\ rPc = "fetch"
  /\ rPc' = "text"
  /\ UNCHANGED <<rUrl, rDoc, rResult, rRan, rThrew>>
  /\ UNCHANGED <<tabVars, normVars, cacheVars, cascVars, valVars, modalVars, fmtVars>>

\* the page arrives: parse it and run the methods
HtmlReceived(doc) ==
  /\ rPc = "text"
  /\ rDoc' = doc
  /\ IF ExtractFromDocument(doc).threw
     THEN rPc' = CatchBlock.pc /\ rResult' = CatchBlock.result
     ELSE rPc' = "done" /\ rResult' = ExtractFromDocument(doc).url
  /\ rRan' = ExtractFromDocument(doc).ran
  /\ rThrew' = ExtractFromDocument(doc).threw
  /\ UNCHANGED rUrl
  /\ UNCHANGED <<tabVars, normVars, cacheVars, cascVars, valVars, modalVars, fmtVars>>

ResNext ==
  \/ \E u \in ItemUrls : GetVideoUrl(u)
  \/ ProxyFailed
  \/ ProxyOk
  \/ \E doc \in VideoDocs : HtmlReceived(doc)

(***************************************************************************)
(* One normalisation pass: the tab loader's on the elements of a document, *)
(* or the scraper's parseTabContent.                                       *)
(***************************************************************************)
NormInit ==
  /\ nPc = "input"
  /\ nOut = <<>>
  /\ \/ nSide = "tabs" /\ nTab \in staticTabs /\ nElems \in Lists(TabElements(nTab), MaxTiles)
     \/ nSide = "scraper" /\ nTab \in ScraperTabs /\ nElems \in ScraperDocs(nTab)

\* the synchronous tail of fetchTabContentCallback on the matched elements
NormalizeTab ==
  /\ nPc = "input"
  /\ nSide = "tabs"
  /\ nPc' = IF MapperThrows(nTab, nElems) THEN "failed" ELSE "done"
  /\ nOut' = IF MapperThrows(nTab, nElems) THEN <<>> ELSE Normalize(nTab, nElems)
  /\ UNCHANGED <<nSide, nTab, nElems>>
  /\ UNCHANGED <<tabVars, cacheVars, cascVars, resVars, valVars, modalVars, fmtVars>>

\* parseTabContent(html, tab) of the scraper
ParseTabContent ==
  /\ nPc = "input"
  /\ nSide = "scraper"
  /\ nPc' = "done"
  /\ nOut' = parseTabContent(nElems, nTab)
  /\ UNCHANGED <<nSide, nTab, nElems>>
  /\ UNCHANGED <<tabVars, cacheVars, cascVars, resVars, valVars, modalVars, fmtVars>>

NormNext == NormalizeTab \/ ParseTabContent

NormIdle ==
  /\ nPc = "off"
  /\ nSide = "tabs"
  /\ nTab = "spotlight"
  /\ nElems = <<>>
  /\ nOut = <<>>

CascIdle ==
  /\ cPc = "off"
  /\ cDoc = EmptyDoc
  /\ cBody = Null
  /\ cField = "title"
  /\ cAttr = "content"
  /\ cResult = Null
  /\ cEvaluated = 0
  /\ cRaised = FALSE
  /\ cRecord = NoRecord

(***************************************************************************)
(* Spotlight.jsx and ContentModal.jsx: the modal of a tile.  showModal and *)
(* activeContent are the state of Spotlight, handed to the modal as isOpen *)
(* and item; videoLoading, videoError, showVideo and videoUrl are the      *)
(* modal's.  resolving holds the promises of getVideoUrl that have not     *)
(* settled, opened counts them.  settled records what the promise of the   *)
(* present opening returned: "pending", "empty", "url", or "none" when the *)
(* present props started no resolution.                                    *)
(***************************************************************************)
MaxOpens == 3

NoContent == [name |-> "null", url |-> Undefined, isStory |-> FALSE, isProfile |-> FALSE]

ModalItems ==
  {[name |-> "a", url |-> Str(<<SnapHost, "spotlight/", "a">>), isStory |-> FALSE, isProfile |-> FALSE],
   [name |-> "b", url |-> Str(<<SnapHost, "spotlight/", "b">>), isStory |-> FALSE, isProfile |-> FALSE],
   [name |-> "s", url |-> Str(<<SnapHost, "@a">>), isStory |-> TRUE, isProfile |-> FALSE],
   [name |-> "n", url |-> Undefined, isStory |-> FALSE, isProfile |-> FALSE]}

\* item?.url?.includes('/spotlight/') || (!item?.isStory && !item?.isProfile)
isVideoContent(item) ==
  \/ item.url.t = "str" /\ \E i \in 1..Len(item.url.s) : item.url.s[i] = "spotlight/"
  \/ ~item.isStory /\ ~item.isProfile

\* the URL that the page of a tile resolves to, when it resolves to one
ResolvedUrl(name) == Str(<<CdnHost, name, ".mp4">>)

\* the <video> element is on the page
VideoShown ==
  /\ showModal
  /\ activeContent # NoContent
  /\ Truthy(videoUrl)
  /\ showVideo
  /\ ~videoError

ModalInit ==
  /\ showModal = FALSE
  /\ activeContent = NoContent
  /\ videoLoading = FALSE
  /\ videoError = FALSE
  /\ showVideo = FALSE
  /\ videoUrl = Null
  /\ resolving = {}
  /\ opened = 0
  /\ settled = "none"

\* the video URL effect, run with the props isOpen and item
VideoUrlEffect(isOpen, item) ==
  IF isOpen /\ isVideoContent(item) /\ Truthy(item.url)
  THEN /\ videoLoading' = TRUE
       /\ videoError' = FALSE
       /\ showVideo' = FALSE
       /\ videoUrl' = Null
       /\ opened' = opened + 1
       /\ resolving' = resolving \cup {[id |-> opened + 1, item |-> item.name]}
       /\ settled' = "pending"
  ELSE /\ videoLoading' = FALSE
       /\ videoError' = FALSE
       /\ showVideo' = FALSE
       /\ videoUrl' = Null
       /\ settled' = "none"
       /\ UNCHANGED <<opened, resolving>>

\* handleItemClick(item) on a tile, which the overlay of an open modal covers,
\* and the effect on isOpen true
OpenItem(item) ==
  /\ ~showModal
  /\ opened < MaxOpens
  /\ showModal' = TRUE
  /\ activeContent' = item
  /\ VideoUrlEffect(TRUE, item)
  /\ UNCHANGED <<tabVars, normVars, cacheVars, cascVars, resVars, valVars, fmtVars>>

\* handleCloseModal, and the effect on isOpen false
CloseModal ==
  /\ showModal
  /\ showModal' = FALSE
  /\ activeContent' = NoContent
  /\ VideoUrlEffect(FALSE, NoContent)
  /\ UNCHANGED <<tabVars, normVars, cacheVars, cascVars, resVars, valVars, fmtVars>>

\* a promise of getVideoUrl resolves with url: the .then, whatever the props
\* are by now, and the playback effect when the <video> element came on the
\* page or its source changed
Resolved(p, url) ==
  /\ p \in resolving
  /\ resolving' = resolving \ {p}
  /\ IF Truthy(url)
     THEN videoUrl' = url /\ showVideo' = TRUE
     ELSE showVideo' = FALSE /\ UNCHANGED videoUrl
  /\ videoLoading' =
       /\ Truthy(url)
       /\ <<TRUE, url>> # <<showVideo, videoUrl>>
       /\ showModal
       /\ activeContent # NoContent
       /\ ~videoError
  /\ settled' = IF p.id = opened /\ settled = "pending"
                THEN (IF Truthy(url) THEN "url" ELSE "empty")
                ELSE settled
  /\ UNCHANGED <<showModal, activeContent, videoError, opened>>
  /\ UNCHANGED <<tabVars, normVars, cacheVars, cascVars, resVars, valVars, fmtVars>>

\* canplay on the <video> element: handleCanPlay and handleVideoCanPlay, and
\* the catch of video.play() when autoplay is refused
CanPlay(autoplay) ==
  /\ VideoShown
  /\ videoLoading' = FALSE
  /\ videoError' = ~autoplay
  /\ UNCHANGED <<showModal, activeContent, showVideo, videoUrl, resolving, opened, settled>>
  /\ UNCHANGED <<tabVars, normVars, cacheVars, cascVars, resVars, valVars, fmtVars>>

\* error on the <video> element: handleError and handleVideoError
VideoFailed ==
  /\ VideoShown
  /\ videoError' = TRUE
  /\ videoLoading' = FALSE
  /\ UNCHANGED <<showModal, activeContent, showVideo, videoUrl, resolving, opened, settled>>
  /\ UNCHANGED <<tabVars, normVars, cacheVars, cascVars, resVars, valVars, fmtVars>>

ModalNext ==
  \/ \E item \in ModalItems : OpenItem(item)
  \/ CloseModal
  \/ \E p \in resolving : \E url \in {Null, ResolvedUrl(p.item)} : Resolved(p, url)
  \/ VideoFailed
  \/ \E autoplay \in BOOLEAN : CanPlay(autoplay)

(***************************************************************************)
(* App.jsx: the subscriber count of the profile header, formatted from the *)
(* subscriberCount field of the page's JSON.  fField is the field (a       *)
(* string of digits, or undefined when the profile has none), fOut the     *)
(* text shown.                                                             *)
(***************************************************************************)
Spread == 4

\* count.toString(), for a count that is not negative
RECURSIVE ToDigits(_)
ToDigits(n) ==
  LET digit == <<"0", "1", "2", "3", "4", "5", "6", "7", "8", "9">>[(n % 10) + 1]
  IN IF n < 10 THEN <<digit>> ELSE ToDigits(n \div 10) \o <<digit>>

DigitValue(c) == CHOOSE d \in 0..9 : ToDigits(d) = <<c>>

\* parseInt(s), for a string of digits
RECURSIVE parseInt(_)
parseInt(s) ==
  IF Len(s) = 1 THEN DigitValue(s[1])
  ELSE 10 * parseInt(SubSeq(s, 1, Len(s) - 1)) + DigitValue(s[Len(s)])

\* Math.round(num / den): the nearest integer, a half rounds up
MathRound(num, den) == (2 * num + den) \div (2 * den)

\* the subscriberCount of the header, from profile?.subscriberCount
subscriberCount(field) ==
  IF ~Truthy(field) THEN Undefined
  ELSE LET count == parseInt(field.s)
       IN IF count >= 1000000 THEN Str(ToDigits(MathRound(count, 1000000)) \o <<"M">>)
          ELSE IF count >= 1000 THEN Str(ToDigits(MathRound(count, 1000)) \o <<"K">>)
          ELSE Str(ToDigits(count))

\* the counts of the profiles: around the thresholds and the halves
Counts ==
  UNION {{n \in (c - Spread)..(c + Spread) : n >= 0} :
           c \in {0, 500, 1000, 1500, 999500, 1000000, 1500000, 12743200}}

FmtInit ==
  /\ fPc = "input"
  /\ fField \in {Str(ToDigits(c)) : c \in Counts} \cup {Undefined}
  /\ fOut = Undefined

FmtIdle ==
  /\ fPc = "off"
  /\ fField = Undefined
  /\ fOut = Undefined

FormatSubscriberCount ==
  /\ fPc = "input"
  /\ fPc' = "done"
  /\ fOut' = subscriberCount(fField)
  /\ UNCHANGED fField
  /\ UNCHANGED <<tabVars, normVars, cacheVars, cascVars, resVars, valVars, modalVars>>

FmtNext == FormatSubscriberCount

(***************************************************************************)
(* The specifications.                                                     *)
(***************************************************************************)
Init == TabsInit /\ NormIdle /\ CacheInit /\ CascIdle /\ ResInit /\ ValInit /\ ModalInit /\ FmtIdle

Next == TabsNext

Spec == Init /\ [][Next]_vars

\* a request of the tab loader is answered: its fetch or its body resolves or
\* rejects
Completes ==
  \E r \in pending :
    \/ FetchFailed(r)
    \/ FetchOk(r)
    \/ TextFailed(r)
    \/ \E elements \in ResponseDocs(r.tab) : TextOk(r, elements)

\* the component when every request is answered in the end
SpecLive == Init /\ [][Next]_vars /\ WF_vars(Completes)

InitNorm == TabsInit /\ NormInit /\ CacheInit /\ CascIdle /\ ResInit /\ ValInit /\ ModalInit /\ FmtIdle

SpecNorm == InitNorm /\ [][NormNext]_vars

SpecCache == Init /\ [][CacheNext]_vars

InitCascade == TabsInit /\ NormIdle /\ CacheInit /\ CascInit /\ ResInit /\ ValInit /\ ModalInit /\ FmtIdle

SpecCascade == InitCascade /\ [][CascNext]_vars

SpecResolver == Init /\ [][ResNext]_vars

GatingNext == TabsNext \/ ValidationNext

SpecGating == Init /\ [][GatingNext]_vars

SpecModal == Init /\ [][ModalNext]_vars

InitFormat == TabsInit /\ NormIdle /\ CacheInit /\ CascIdle /\ ResInit /\ ValInit /\ ModalInit /\ FmtInit

SpecFormat == InitFormat /\ [][FmtNext]_vars

(***************************************************************************)
(* The claims.                                                             *)
(***************************************************************************)

\* C1: every call of fetchTabContentCallback takes a request identifier greater
\* than that of every earlier call, and whenever items is written the writer is
\* the most recently issued request: the result of a request that a newer one
\* has superseded is never stored.
C1_StaleResponseGuard ==
  [][/\ requestIdRef' # requestIdRef =>
          /\ requestIdRef' > requestIdRef
          /\ \A r \in pending : r.id < requestIdRef'
          /\ \E r \in pending' \ pending : r.id = requestIdRef'
     /\ (items' # items \/ itemsReq' # itemsReq) =>
          /\ itemsReq' = requestIdRef'
          /\ itemsReq' \notin dropped']_vars

\* a superseded request has resolved and was discarded, and the newest one wrote
C1_Witness == dropped # {} /\ itemsReq = requestIdRef /\ itemsReq > 1

\* C2: a lookup made while the key's entry is at most stdTTL seconds old issues
\* no upstream fetch and returns the stored value; a lookup made with no entry
\* or after the TTL has elapsed issues exactly one fetch; and whatever is stored
\* is stored with the current time.
C2_CacheEconomy ==
  [][\A k \in CacheKeys :
       /\ lookups'[k] = lookups[k] + 1 =>
            IF cache[k].present /\ now - cache[k].createdAt <= stdTTL
            THEN /\ fetches'[k] = fetches[k]
                 /\ lastHit' = [key |-> k, value |-> cache[k].value]
                 /\ cache'[k] = cache[k]
            ELSE fetches'[k] = fetches[k] + 1
       /\ lookups'[k] = lookups[k] => fetches'[k] = fetches[k]
       /\ (cache'[k] # cache[k] /\ cache'[k].present) => cache'[k].createdAt = now]_vars

\* three lookups of one key: the first fetched, the second hit, the third came
\* after the TTL and fetched again
C2_Witness ==
  \E k \in CacheKeys :
    /\ lookups[k] = 3
    /\ fetches[k] = 2
    /\ lastHit.key = k
    /\ cache[k].present
    /\ cache[k].createdAt > stdTTL

\* C3: at most one upstream fetch per key is in flight at any time.
C3_OneFetchInFlightPerKey ==
  \A k \in CacheKeys : Cardinality({c \in calls : c.key = k}) <= 1

\* what a rule of the cascade in cField yields for cAttr on cDoc: it fires when
\* its selector matches and the node has a non-empty value
RuleMatches(i) == cDoc[selectorsProfile[cField][i]].matched

RuleValue(i) ==
  LET node == cDoc[selectorsProfile[cField][i]]
  IN IF cAttr = "text" THEN Str(Trim(node.text))
     ELSE IF cAttr = "content" THEN node.content ELSE node.src

RuleFires(i) == RuleMatches(i) /\ RuleValue(i).t = "str" /\ RuleValue(i).s # <<>>

RuleCount == Len(selectorsProfile[cField])

EmptyValues == {Null, Undefined, Str(<<>>)}

\* C4: when some rule of the cascade fires, findWithFallback returns the value of
\* the lowest-index firing rule and evaluates no rule after it (r1 misses, r2
\* fires: the result is r2's value and r3 is not evaluated).
C4_CascadeDeterminism ==
  cPc = "found" =>
    \A i \in 1..RuleCount :
      (RuleFires(i) /\ \A j \in 1..(i - 1) : ~RuleFires(j)) =>
        cResult = RuleValue(i) /\ cEvaluated = i

\* C5: a rule whose selector matches a node with an absent or empty value does
\* not end the cascade: an empty result is returned only after every rule has
\* been evaluated.
C5_FiresOnlyOnNonEmpty ==
  cPc = "found" => (cResult \in EmptyValues => cEvaluated = RuleCount)

TabTileOk(tile) ==
  IF tile.isProfile THEN Truthy(tile.user)
  ELSE IF tile.isStory THEN Truthy(tile.user) /\ Truthy(tile.description)
  ELSE Truthy(tile.user) \/ Truthy(tile.description)

\* the required fields of a tile the scraper emits: a story card on the Stories
\* tab, a content tile on the others
ScraperTileOk(tile) ==
  IF nTab = "Stories" THEN Truthy(tile.user) /\ Truthy(tile.description)
  ELSE Truthy(tile.user) \/ Truthy(tile.description)

\* C7: no emitted tile violates the required-field rule of its category: a
\* profile tile has a user, a story tile a user and a description, any other
\* tile a user or a description; a thumbnail alone is never enough.
C7_TileInvariants ==
  nPc = "done" =>
    \A i \in 1..Len(nOut) :
      IF nSide = "tabs" THEN TabTileOk(nOut[i]) ELSE ScraperTileOk(nOut[i])

\* the tiles of the tagged document that pass the item filter, before the
\* tagged normalisation
TaggedKept ==
  SelectSeq([i \in 1..Len(nElems) |-> dataMapper("tagged", nElems[i])], KeepItem)

SamePair(a, b) == a.user = b.user /\ a.description = b.description

IsSelf(tile) == tile.user = Str(username)

\* C8: the emitted tagged list has no tile whose user is the subject and no two
\* tiles with the same (user, description) pair; tiles of one pair together with
\* self-authored tiles give exactly one tile, and a document whose only
\* mentions are by the subject gives the empty list.
C8_TaggedNormalization ==
  (nPc = "done" /\ nSide = "tabs" /\ nTab = "tagged") =>
    /\ \A i \in 1..Len(nOut) : ~IsSelf(nOut[i])
    /\ \A i, j \in 1..Len(nOut) : SamePair(nOut[i], nOut[j]) => i = j
    /\ (\A i \in 1..Len(TaggedKept) : IsSelf(TaggedKept[i])) => nOut = <<>>
    /\ ((\E i \in 1..Len(TaggedKept) : ~IsSelf(TaggedKept[i]))
         /\ \A i, j \in 1..Len(TaggedKept) :
               IsSelf(TaggedKept[i]) \/ IsSelf(TaggedKept[j])
                 \/ SamePair(TaggedKept[i], TaggedKept[j]))
        => Len(nOut) = 1

\* two tiles of one pair and one self-authored tile went in, one tile came out
C8_Witness ==
  /\ nPc = "done" /\ nSide = "tabs" /\ nTab = "tagged"
  /\ Len(TaggedKept) = 3
  /\ \E i, j, k \in 1..3 :
       /\ i # j
       /\ SamePair(TaggedKept[i], TaggedKept[j])
       /\ ~IsSelf(TaggedKept[i])
       /\ IsSelf(TaggedKept[k])
  /\ Len(nOut) = 1

\* C9: tagged tiles are collapsed only when both user and description are
\* equal: every (user, description) pair of a tile that is not self-authored is
\* still in the emitted list, once per distinct pair.
C9_DedupByExactPair ==
  (nPc = "done" /\ nSide = "tabs" /\ nTab = "tagged") =>
    \A i \in 1..Len(TaggedKept) :
      ~IsSelf(TaggedKept[i]) => \E j \in 1..Len(nOut) : SamePair(nOut[j], TaggedKept[i])

\* the strategies of getVideoUrl by what they find on the fetched document:
\* whether strategy i yields a URL, and the URL
StrategyYields(i) ==
  CASE i = 1 -> Method1(rDoc).found
    [] i = 2 -> FirstMedia(rDoc.dataAttributes, 1).found
    [] i = 3 -> FirstMedia(rDoc.videoSources, 1).found
    [] i = 7 -> FirstScriptVideo(rDoc.scriptMatches, 1).found
    [] OTHER -> rDoc.later.found /\ rDoc.later.index = i

StrategyUrl(i) ==
  CASE i = 1 -> Method1(rDoc).url
    [] i = 2 -> FirstMedia(rDoc.dataAttributes, 1).url
    [] i = 3 -> FirstMedia(rDoc.videoSources, 1).url
    [] i = 7 -> FirstScriptVideo(rDoc.scriptMatches, 1).url
    [] OTHER -> rDoc.later.url

StrategyCount == 8

\* C10: on a fetched document getVideoUrl returns the URL of the
\* lowest-numbered strategy that yields one, having run the strategies up to
\* that one in order and none after it (strategies 1 and 2 fail, 3 succeeds:
\* the result is strategy 3's URL and strategies 4 to 8 are not run).
C10_ResolverShortCircuit ==
  (rPc = "done" /\ rRan # <<>>) =>
    \A i \in 1..StrategyCount :
      (StrategyYields(i) /\ \A j \in 1..(i - 1) : ~StrategyYields(j)) =>
        /\ rResult = Str(StrategyUrl(i))
        /\ rRan = [k \in 1..i |-> k]

\* C11: getVideoUrl never rejects, and it returns null when the URL is absent,
\* when the URL is neither a direct video URL nor a snapchat.com URL, and when
\* none of the eight strategies yields a URL on the fetched document.
C11_ExhaustionIsEmpty ==
  /\ rPc # "rejected"
  /\ rPc = "done" =>
       /\ ~Truthy(rUrl) => rResult = Null
       /\ (Truthy(rUrl) /\ ~IsDirectVideoUrl(rUrl.s) /\ ~UrlIncludes(rUrl.s, "snapchat.com"))
            => rResult = Null
       /\ (rRan # <<>> /\ \A i \in 1..StrategyCount : ~StrategyYields(i)) => rResult = Null

\* a page was fetched on which no strategy finds a URL, and null was returned
C11_Witness ==
  /\ rPc = "done"
  /\ rRan # <<>>
  /\ \A i \in 1..StrategyCount : ~StrategyYields(i)
  /\ rResult = Null

\* C12: no call of fetchProfile or fetchTabContent ends with a rejected
\* promise: a network error or a non-success status is reported to the caller
\* as a value.
C12_NoFailureEscapes == rejected = {}

\* C13: the body of a response with a non-success status is never parsed into
\* a record, a tile list or an answer about a tab's existence.
C13_NonSuccessNeverParsed == FALSE \notin parsedStatuses

\* a tab the background validation has confirmed to have content
Confirmed(tab) == vPc = "done" /\ tab \in vWithContent

\* C14: a request for the tiles of a tab is in flight only for a tab that the
\* validation has confirmed; none is issued for a tab that is unvalidated or
\* was found empty.
C14_FetchOnlyConfirmedTabs == \A r \in pending : Confirmed(r.tab)

\* C15: once the component is mounted, a tab whose existence check has not
\* completed successfully is not in the available set.
C15_UnvalidatedNotAvailable == mounted => \A tab \in availableTabs : Confirmed(tab)

\* C17: a request for the tiles of a tab goes upstream only when the tab's page
\* has not been fetched before within the TTL: once a tab's page has been
\* fetched and parsed, a further request for that tab issues no fetch.
C17_FetchOnlyAfterMiss ==
  [][\A r \in pending' \ pending : r.phase = "fetch" => r.tab \notin loaded]_vars

\* C18: a method that finds nothing or throws does not stop the later methods:
\* on a fetched document getVideoUrl gives up with null only after all eight
\* methods have run.
C18_MethodFailureDoesNotAbort ==
  (rPc = "done" /\ rRan # <<>> /\ rResult = Null) =>
    rRan = [k \in 1..StrategyCount |-> k]

\* the words of a text, and those of them that are counters: digits with an
\* optional k or K after them
RECURSIVE Words(_, _)
Words(text, word) ==
  IF text = <<>> THEN (IF word = <<>> THEN <<>> ELSE <<word>>)
  ELSE IF IsSpace(Head(text))
       THEN (IF word = <<>> THEN <<>> ELSE <<word>>) \o Words(Tail(text), <<>>)
       ELSE Words(Tail(text), Append(word, Head(text)))

IsCounterWord(word) ==
  LET digits == IF word[Len(word)] \in {"k", "K"} THEN Len(word) - 1 ELSE Len(word)
  IN digits >= 1 /\ \A i \in 1..digits : IsDigit(word[i])

CountersOf(text) == SelectSeq(Words(text, <<>>), IsCounterWord)

\* C19: the tile of a spotlight anchor has for views, comments and shares the
\* first, second and third counter of the anchor's text; a word of the
\* description is not taken as a counter, and a counter the text lacks leaves
\* its field undefined.
C19_SpotlightCounters ==
  (nPc = "done" /\ nSide = "tabs" /\ nTab = "spotlight") =>
    \A i \in 1..Len(nElems) :
      nElems[i].tag = "A" =>
        \E j \in 1..Len(nOut) :
          /\ nOut[j].thumbnail = nElems[i].img
          /\ nOut[j].user = Or(nElems[i].hrefUser, Str(username))
          /\ nOut[j].views = At(CountersOf(nElems[i].text), 1)
          /\ nOut[j].comments = At(CountersOf(nElems[i].text), 2)
          /\ nOut[j].shares = At(CountersOf(nElems[i].text), 3)

\* C20: when none of strategies 1 to 6 yields a URL and an inline script holds
\* a quoted video URL that passes the script test, getVideoUrl returns that
\* URL, and the URL has no "thumb", "poster" or "preview" in it and no
\* dimension token.
C20_ScriptPatternScan ==
  (/\ rPc = "done"
   /\ rRan # <<>>
   /\ \A i \in 1..6 : ~StrategyYields(i)
   /\ \E k \in 1..Len(rDoc.scriptMatches) : IsScriptVideo(rDoc.scriptMatches[k]))
  => /\ rResult.t = "str"
     /\ \E k \in 1..Len(rDoc.scriptMatches) : rResult.s = rDoc.scriptMatches[k]
     /\ ~UrlIncludes(rResult.s, "thumb")
     /\ ~UrlIncludes(rResult.s, "poster")
     /\ ~UrlIncludes(rResult.s, "preview")
     /\ ~HasDimensions(rResult.s)


\* the tiles of nOut the JSON-LD branch of a mapper made (it sets comments to
\* null; the generic branch leaves it undefined or a counter), and the others
IsScriptElement(el) == el.tag = "SCRIPT"

NotScriptElement(el) == el.tag # "SCRIPT"

CarriesDiscriminator(el) ==
  el.tag = "SCRIPT" /\ el.json.kind = "object" /\ el.json.type = VideoObject

ScriptMade(tile) == tile.comments = Null

GenericMade(tile) == tile.comments # Null

\* C21: a script element is never mapped by the generic mapper and yields a
\* tile only when its payload has @type VideoObject; a payload without it
\* yields no tile; an element that is no script is mapped by the generic mapper.
C21_TaggedUnionDispatch ==
  (nPc = "done" /\ nSide = "tabs" /\ nTab \in {"spotlight", "tagged"}) =>
    /\ \A i \in 1..Len(nOut) :
         ScriptMade(nOut[i]) =>
           \E j \in 1..Len(nElems) :
             /\ CarriesDiscriminator(nElems[j])
             /\ nOut[i].thumbnail = nElems[j].json.thumbnailUrl
             /\ nOut[i].description = Or(nElems[j].json.name, nElems[j].json.description)
    /\ \A i \in 1..Len(nOut) :
         GenericMade(nOut[i]) =>
           \E j \in 1..Len(nElems) :
             /\ NotScriptElement(nElems[j])
             /\ nOut[i].thumbnail = nElems[j].img
             /\ nOut[i].user = IF nTab = "spotlight"
                               THEN Or(nElems[j].hrefUser, Str(username))
                               ELSE nElems[j].hrefUser
    /\ Len(SelectSeq(nOut, ScriptMade)) <= Len(SelectSeq(nElems, CarriesDiscriminator))
    /\ Len(SelectSeq(nOut, GenericMade)) <= Len(SelectSeq(nElems, NotScriptElement))
    /\ nTab = "spotlight" =>
         /\ Len(SelectSeq(nOut, ScriptMade)) = Len(SelectSeq(nElems, CarriesDiscriminator))
         /\ Len(SelectSeq(nOut, GenericMade)) = Len(SelectSeq(nElems, NotScriptElement))

\* a VideoObject script, a script of another type and an anchor gave two tiles
C21_Witness ==
  /\ nPc = "done" /\ nSide = "tabs" /\ nTab = "spotlight"
  /\ Len(nElems) = 3
  /\ \E i, j, k \in 1..3 :
       /\ CarriesDiscriminator(nElems[i])
       /\ IsScriptElement(nElems[j]) /\ nElems[j].json.kind = "object"
       /\ ~CarriesDiscriminator(nElems[j])
       /\ NotScriptElement(nElems[k])
  /\ Len(nOut) = 2
  /\ \E i, j \in 1..2 : ScriptMade(nOut[i]) /\ GenericMade(nOut[j])

\* a script whose payload does not decode or is an object of another type
LacksShape(el) ==
  /\ el.tag = "SCRIPT"
  /\ \/ el.json.kind = "malformed"
     \/ el.json.kind = "object" /\ el.json.type # VideoObject

WellShaped(el) == ~LacksShape(el)

\* C22: a script whose payload is malformed or lacks the shape yields no tile
\* for that node only: the extraction completes, and its tiles are those of the
\* document without these scripts.
C22_MalformedNodeSkipped ==
  (nPc # "input" /\ nSide = "tabs" /\ nTab \in {"spotlight", "tagged"}
     /\ \E i \in 1..Len(nElems) : LacksShape(nElems[i])) =>
    /\ nPc = "done"
    /\ nOut = Normalize(nTab, SelectSeq(nElems, WellShaped))
    /\ Len(nOut) <= Len(SelectSeq(nElems, WellShaped))

\* a malformed script, a script of another type and an anchor gave the
\* anchor's tile
C22_Witness ==
  /\ nPc = "done" /\ nSide = "tabs" /\ nTab = "spotlight"
  /\ Len(nElems) = 3
  /\ \E i, j, k \in 1..3 :
       /\ IsScriptElement(nElems[i]) /\ nElems[i].json.kind = "malformed"
       /\ IsScriptElement(nElems[j]) /\ nElems[j].json.kind = "object"
       /\ LacksShape(nElems[j])
       /\ NotScriptElement(nElems[k])
  /\ Len(nOut) = 1
  /\ GenericMade(nOut[1])

\* the tiles an element of a spotlight document is to give: one per VideoObject
\* of an array payload, one for a VideoObject payload, one for any other node
TilesDue(el) ==
  IF NotScriptElement(el) THEN 1
  ELSE IF el.json.kind = "array" THEN Len(SelectSeq(el.json.elems, IsVideoObject))
  ELSE IF CarriesDiscriminator(el) THEN 1
  ELSE 0

RECURSIVE TotalDue(_)
TotalDue(elements) ==
  IF elements = <<>> THEN 0 ELSE TilesDue(Head(elements)) + TotalDue(Tail(elements))

\* C30: every VideoObject of a JSON-LD array payload of a spotlight document
\* gives one tile, and the array marker itself is no tile of the result.
C30_VideoArrayExpanded ==
  (nPc = "done" /\ nSide = "tabs" /\ nTab = "spotlight") =>
    /\ \A i \in 1..Len(nOut) : ~IsArrayMarker(nOut[i])
    /\ Len(nOut) = TotalDue(nElems)


\* C23: a tab request that ends in the catch block leaves the items, the
\* request they came from, the request counter and the available tabs as they
\* were, and a current request whose body arrives still stores its data.
C23_FailureAbortsOnlyItsRequest ==
  [][/\ \A i \in failed' \ failed :
          /\ items' = items
          /\ itemsReq' = itemsReq
          /\ availableTabs' = availableTabs
          /\ requestIdRef' = requestIdRef
          /\ \A r \in pending : r.id # i => r \in pending'
     /\ \A r \in pending :
          (r.phase = "text" /\ r \notin pending' /\ r.id \notin failed' /\ r.id = requestIdRef)
            => itemsReq' = r.id]_vars

\* items were shown, a later request failed, and the items are still shown
C23_Witness ==
  /\ items # <<>>
  /\ itemsReq \notin failed
  /\ \E i \in failed : i > itemsReq
  /\ ~loading

\* C24: when a request of the background validation fails, the available tabs
\* stay the five static tabs.
C24_FailedValidationKeepsStaticTabs ==
  (vPc = "done" /\ vFailed) => availableTabs = staticTabs

\* C25: no two tab probes of the background validation are issued without a
\* pause between them, on the tablist path and on the fallback path.
C25_PauseBetweenProbes == vSincePause <= 1


\* the levels below the root of a payload at which the string url is found
RECURSIVE LevelsOf(_, _, _)
LevelsOf(value, url, level) ==
  CASE value.k = "str" -> IF value.s = url THEN {level} ELSE {}
    [] value.k = "obj" ->
         UNION {LevelsOf(value.props[i].val, url, level + 1) : i \in 1..Len(value.props)}
    [] value.k = "arr" ->
         UNION {LevelsOf(value.elems[i], url, level + 1) : i \in 1..Len(value.elems)}
    [] OTHER -> {}

\* the candidates the deep search finds in the payload of the fetched document
Candidates == deepVideoSearch(rDoc.nextData.data, 0)

SearchRan == rPc = "done" /\ rDoc.nextData.kind = "parsed"

\* C26, as claimed: the deep search ends on every payload and no URL it finds
\* lies more than 10 levels below the root of the payload.
C26_SearchWithinTenLevels ==
  SearchRan =>
    \A i \in 1..Len(Candidates) :
      \E level \in LevelsOf(rDoc.nextData.data, Candidates[i].url, 0) :
        level <= MaxSearchDepth

\* C26, amended: the deep search ends on every payload; it searches no object
\* or array more than 10 levels below the root, so every URL it finds is a
\* property of an object at most 10 levels below, itself at most 11 levels
\* below, and a URL that lies deeper only is not found.
C26_SearchWithinTenObjectLevels ==
  SearchRan =>
    /\ \A i \in 1..Len(Candidates) :
         \E level \in LevelsOf(rDoc.nextData.data, Candidates[i].url, 0) :
           level <= MaxSearchDepth + 1
    /\ (rResult.t = "str" /\ rRan = <<1>>) =>
         \E level \in LevelsOf(rDoc.nextData.data, rResult.s, 0) :
           level <= MaxSearchDepth + 1

\* a payload whose only URL is the property of an object 11 levels below the
\* root was searched and gave nothing
C26_Witness ==
  /\ SearchRan
  /\ rDoc.nextData.data = DeepPayload(MaxSearchDepth + 1)
  /\ LevelsOf(rDoc.nextData.data, DeepVideo, 0) = {MaxSearchDepth + 2}
  /\ Candidates = <<>>
  /\ rResult = Null

\* C27, as claimed: of several candidates of the deep search one that ends in
\* a video extension is returned before any that does not.
C27_ExtensionRanking ==
  (SearchRan /\ rRan = <<1>>) =>
    ((\E i \in 1..Len(Candidates) : EndsInVideoExtension(Candidates[i].url))
       => EndsInVideoExtension(rResult.s))

HasMp4(url) == UrlIncludes(url, ".mp4")

\* C27, amended: of several candidates of the deep search one whose value
\* contains ".mp4" is returned before any whose value does not, and among
\* candidates alike in this the first in the order of the search.
C27_Mp4Ranking ==
  (SearchRan /\ rRan = <<1>>) =>
    /\ rResult.t = "str"
    /\ (\E i \in 1..Len(Candidates) : HasMp4(Candidates[i].url)) => HasMp4(rResult.s)
    /\ \E i \in 1..Len(Candidates) :
         /\ Candidates[i].url = rResult.s
         /\ \A j \in 1..(i - 1) : HasMp4(Candidates[j].url) # HasMp4(rResult.s)

\* the search found a .webm URL first and a .mp4 URL second; the second is
\* returned
C27_Witness ==
  /\ SearchRan /\ rRan = <<1>>
  /\ Len(Candidates) = 2
  /\ Candidates[1].url = WebmVideo
  /\ Candidates[2].url = CdnVideo
  /\ rResult = Str(CdnVideo)


\* the most recently issued tab request has not ended
LatestUnresolved == \E r \in pending : r.id = requestIdRef

\* C31: loading is true exactly while the most recently issued tab request is
\* unresolved: the end of a superseded request does not clear it, the end of
\* the latest one does; when every request is answered, loading becomes and
\* stays false.
C31_LoadingFollowsLatestRequest ==
  /\ [](loading <=> LatestUnresolved)
  /\ <>[](~loading)

\* a superseded request has ended and loading is still shown for the latest
C31_Witness ==
  /\ loading
  /\ LatestUnresolved
  /\ \E i \in dropped \cup failed : i < requestIdRef

\* C32: the active tab is one of the available tabs whenever there is one.
C32_ActiveTabAvailable ==
  availableTabs # {} => activeTab \in availableTabs

\* C33: with no tab request in flight, the items shown are the initial empty
\* list or were extracted for the active tab.
C33_ItemsOfActiveTab ==
  (~loading /\ items # <<>>) => itemsTab = activeTab

\* C34: a result of getVideoUrl that arrives after the modal was closed, or
\* reopened on another tile, changes nothing: showVideo is never true while
\* the modal is closed, and the URL the modal holds was resolved for the tile
\* it is open on
C34_StaleResolutionIgnored ==
  /\ showVideo => showModal
  /\ Truthy(videoUrl) => (showModal /\ videoUrl = ResolvedUrl(activeContent.name))

\* C35: once the resolution started by the present opening returned empty,
\* the modal shows the thumbnail: not loading, no video, no URL, no error
C35_EmptyResolutionFallsBack ==
  (showModal /\ settled = "empty") =>
    (~videoLoading /\ ~showVideo /\ videoUrl = Null /\ ~videoError)

\* C36: the catch block of a cached fetch leaves every entry of the cache as
\* it was, and a lookup never returns anything but the data of a page
C36_FailedFetchStoresNothing ==
  /\ [][\A c \in calls : UpstreamFailed(c) => cache' = cache]_vars
  /\ [](lastHit # NoHit => lastHit.value \in PageData)

\* a call failed, nothing is cached under its key, and a later call of the
\* same key is fetching again
C36_Witness ==
  \E c \in calls :
    /\ fetches[c.key] >= 2
    /\ ~cache[c.key].present
    /\ \E id \in rejected : id < c.id

\* C37: a count of a million or more shows as nM, a count from 1000 to
\* 999999 as nK with n from 1 to 999, a smaller count as itself; n is the
\* integer nearest to the count over the unit
C37_FollowerCountFormat ==
  (fPc = "done" /\ Truthy(fField)) =>
    LET count == parseInt(fField.s)
        Nearest(n, unit) == 2 * n * unit - unit <= 2 * count /\ 2 * count <= 2 * n * unit + unit
    IN IF count >= 1000000
       THEN \E n \in 1..100 : Nearest(n, 1000000) /\ fOut = Str(ToDigits(n) \o <<"M">>)
       ELSE IF count >= 1000
       THEN \E n \in 1..999 : Nearest(n, 1000) /\ fOut = Str(ToDigits(n) \o <<"K">>)
       ELSE fOut = Str(ToDigits(count))
====
